---- MODULE Spec2Model ----
(***************************************************************************)
(* Model of the elastic-mcp aggregating gateway                            *)
(* (crates/elastic-mcp/src/servers/aggregate.rs and its collaborators).    *)
(*                                                                         *)
(* Strings are sequences of one-character strings, so that formatting,     *)
(* rsplit_once and parse are computed character by character.  A Rust      *)
(* Option is a sequence of length at most one: None is <<>>, Some(v) is    *)
(* <<v>>.  A Rust Result is a record with an "ok" flag.                    *)
(*                                                                         *)
(* Specifications: SpecCodec (the identifier codec on sampled inputs),     *)
(* Spec (the aggregate handling requests and notifications while serving), *)
(* SpecInfo (get_info over handlers with any capabilities), SpecLife       *)
(* (run_stdio, the shutdown token and the proxies' waiter tasks),          *)
(* SpecLifeFair (SpecLife with weak fairness on each waiter), SpecOrder    *)
(* (the same requests run under two enumeration orders of the handler      *)
(* map), SpecConcurrent (two requests interleaved at their awaits),        *)
(* SpecTools (the search and esql tools of the Elasticsearch handler),     *)
(* SpecHttp (run_http), SpecSessions (run_stdio with proxied sessions that *)
(* end on their own) and SpecList / SpecListFair (list requests against    *)
(* upstreams that may repeat a cursor, the fair one with upstreams that    *)
(* always answer).                                                         *)
(***************************************************************************)
EXTENDS Integers, Sequences, FiniteSets, TLC

(***************************************************************************)
(* Bounds of the model.                                                    *)
(***************************************************************************)
\* longest identifier enumerated exhaustively for the identifier codec
MaxLen == 3
\* most upstream handlers pushed into the builder
MaxHandlers == 2
\* most continuation cursors the upstreams hand out during one list request
MaxCursors == 1
\* most hits in one search answer of Elasticsearch
MaxHits == 2
\* most columns in one ES|QL answer; a row holds up to one value more
MaxColumns == 2
\* most rows in one ES|QL answer
MaxRows == 2
\* most continuation cursors an upstream that may repeat its cursors hands out
\* during one list request
MaxPages == 2

(***************************************************************************)
(* Option and string helpers.                                              *)
(***************************************************************************)
None == <<>>
Some(v) == <<v>>

DigitChars == <<"0", "1", "2", "3", "4", "5", "6", "7", "8", "9">>
Digits == {DigitChars[i] : i \in 1..Len(DigitChars)}
DigitVal(c) == (CHOOSE i \in 1..Len(DigitChars) : DigitChars[i] = c) - 1

\* characters of the exhaustively enumerated identifiers
Chars == {"a", "_", "0", "1", "+"}
StringsUpTo(n) == UNION {[1..k -> Chars] : k \in 0..n}

\* the decimal digits of u32::MAX = 4294967295
U32MaxDigits == <<"4", "2", "9", "4", "9", "6", "7", "2", "9", "5">>

RECURSIVE StripZeros(_)
StripZeros(ds) ==
    IF Len(ds) > 1 /\ Head(ds) = "0" THEN StripZeros(Tail(ds)) ELSE ds

\* a < b for two digit strings of the same length
RECURSIVE DigitsLess(_, _)
DigitsLess(a, b) ==
    IF a = <<>> THEN FALSE
    ELSE IF DigitVal(Head(a)) # DigitVal(Head(b))
         THEN DigitVal(Head(a)) < DigitVal(Head(b))
         ELSE DigitsLess(Tail(a), Tail(b))

\* the digit string ds (no leading zeros) denotes a number above u32::MAX
ExceedsU32(ds) ==
    \/ Len(ds) > Len(U32MaxDigits)
    \/ Len(ds) = Len(U32MaxDigits) /\ DigitsLess(U32MaxDigits, ds)

RECURSIVE DigitsValue(_)
DigitsValue(ds) ==
    IF ds = <<>> THEN 0
    ELSE 10 * DigitsValue(SubSeq(ds, 1, Len(ds) - 1)) + DigitVal(ds[Len(ds)])

(***************************************************************************)
(* format!("{}", handler_id.0): the decimal text of a u32.                 *)
(***************************************************************************)
RECURSIVE FormatU32(_)
FormatU32(n) ==
    IF n < 10 THEN <<DigitChars[n + 1]>>
    ELSE FormatU32(n \div 10) \o <<DigitChars[(n % 10) + 1]>>

(***************************************************************************)
(* tool.parse::<u32>(): an optional leading '+', then one or more ASCII    *)
(* digits (leading zeros allowed) whose value fits in 32 bits.  A '-', an  *)
(* empty digit string, any other character, or a value above u32::MAX is   *)
(* an error.  The result is Some(value) or None.                           *)
(***************************************************************************)
ParseU32Empty(t) ==
    LET ds == IF t # <<>> /\ Head(t) = "+" THEN Tail(t) ELSE t
    IN  IF ds = <<>> THEN Some(0)
        ELSE IF \E i \in 1..Len(ds) : ds[i] \notin Digits THEN None
        ELSE IF ExceedsU32(StripZeros(ds)) THEN None
        ELSE Some(DigitsValue(StripZeros(ds)))

ParseU32(t) ==
    LET ds == IF t # <<>> /\ Head(t) = "+" THEN Tail(t) ELSE t
    IN  IF ds = <<>> THEN None
        ELSE IF \E i \in 1..Len(ds) : ds[i] \notin Digits THEN None
        ELSE IF ExceedsU32(StripZeros(ds)) THEN None
        ELSE Some(DigitsValue(StripZeros(ds)))

(***************************************************************************)
(* id.rsplit_once('_'): None when id has no '_', else the text before and  *)
(* the text after the LAST '_'.                                            *)
(***************************************************************************)
SplitOnceFirst(s) ==
    LET idx == {i \in 1..Len(s) : s[i] = "_"}
    IN  IF idx = {} THEN None
        ELSE LET i == CHOOSE j \in idx : \A k \in idx : j <= k
             IN  Some(<<SubSeq(s, 1, i - 1), SubSeq(s, i + 1, Len(s))>>)

RSplitOnce(s) ==
    LET idx == {i \in 1..Len(s) : s[i] = "_"}
    IN  IF idx = {} THEN None
        ELSE LET i == CHOOSE j \in idx : \A k \in idx : j >= k
             IN  Some(<<SubSeq(s, 1, i - 1), SubSeq(s, i + 1, Len(s))>>)

(***************************************************************************)
(* rmcp::Error values and McpResult.                                       *)
(***************************************************************************)
resource_not_found(message) == [code |-> "resource_not_found", message |-> message]
internal_error(message) == [code |-> "internal_error", message |-> message]
method_not_found(method) == [code |-> "method_not_found", message |-> method]

Ok(v) == [ok |-> TRUE, value |-> v]
Err(e) == [ok |-> FALSE, error |-> e]

(***************************************************************************)
(* CompositeId                                                             *)
(***************************************************************************)
CompositeId_compose_bare(handler_id, item_id) == item_id \o FormatU32(handler_id)

CompositeId_compose(handler_id, item_id) ==
    item_id \o <<"_">> \o FormatU32(handler_id)

CompositeId_split(id) ==
    LET parts == RSplitOnce(id)
    IN  IF parts # None /\ ParseU32(parts[1][2]) # None
        THEN Ok([handler |-> ParseU32(parts[1][2])[1], item |-> parts[1][1]])
        ELSE Err(resource_not_found(id))

(***************************************************************************)
(* State.                                                                  *)
(***************************************************************************)
VARIABLES
    codecIn,     \* identifier codec: the input, a (handler, item) pair or a string
    composed,    \* identifier codec: Option<String>, the result of compose
    decoded,     \* identifier codec: Option<McpResult>, the result of split
    handlers,    \* AggregateSharedData.handlers: HandlerId -> handler
    iterOrder,   \* the order in which the HashMap enumerates its keys
    pc,          \* where handle_request / handle_notification is suspended
    request,     \* the downstream ClientRequest being handled
    handlerIt,   \* list_all: position of the `for` loop in iterOrder
    all_items,   \* list_all: the accumulator
    routeId,     \* call-tool / read-resource / get-prompt: Option<HandlerId>
    calls,       \* requests the upstream handlers received for this request
    replies,     \* what the upstream handlers answered, aligned with calls
    outcomes,    \* what each call produced inside the handler, before the
                 \* handler turned it into its answer; aligned with replies
    notified,    \* notifications the upstream handlers received
    response,    \* Option<McpResult>: what the downstream caller gets back
    info,        \* Option<ServerInfo>: the last value returned by get_info
    ct,          \* setup_services: the shutdown token, TRUE once cancelled
    remote_ct,   \* per proxy: the token of the wrapped session
    waiter,      \* per proxy: where the task spawned by ProxyServer::new is
    main,        \* where run_stdio is, and what ended its select!
    earlier,     \* Option: the request, upstream calls, outcomes and response
                 \* of the same request under another enumeration order
    parked,      \* Option: the locals of a second handle_request future that
                 \* is suspended while the first one runs
    toolIn,      \* the arguments of an Elasticsearch tool and the response
                 \* Elasticsearch gives
    toolOut,     \* Option: what the tool sent and what it returned
    registered   \* AggregateServerBuilder.handlers: the Vec the aggregate
                 \* was built from

codecVars == <<codecIn, composed, decoded>>
aggVars == <<handlers, iterOrder, pc, request, handlerIt, all_items, routeId,
             calls, replies, outcomes, notified, response, info>>
lifeVars == <<ct, remote_ct, waiter, main>>
hyperVars == <<earlier, parked>>
toolVars == <<toolIn, toolOut>>
buildVars == <<registered>>
vars == <<codecIn, composed, decoded, handlers, iterOrder, pc, request,
          handlerIt, all_items, routeId, calls, replies, outcomes, notified,
          response, info, ct, remote_ct, waiter, main, earlier, parked,
          toolIn, toolOut, registered>>

\* the handlers that are proxies: each wraps a session and has a waiter task
ProxyIds == {h \in DOMAIN handlers : handlers[h].kind = "ProxyServer"}

\* one request, under one enumeration order
HyperUnused ==
    /\ earlier = None
    /\ parked = None

NoToolInput == [tool |-> "none"]

ToolsUnused ==
    /\ toolIn = NoToolInput
    /\ toolOut = None

\* the tokens are fresh, the waiters are parked on ct.cancelled()
LifeInit(mainPc) ==
    /\ ct = FALSE
    /\ remote_ct = [h \in ProxyIds |-> FALSE]
    /\ waiter = [h \in ProxyIds |-> "waiting"]
    /\ main = [pc |-> mainPc, ended |-> None]

(***************************************************************************)
(* The identifier codec on its own: the inputs are drawn from bounded      *)
(* sets, the actions apply compose and split.                              *)
(***************************************************************************)
sFoo == <<"f", "o", "o">>
sFooBar == <<"f", "o", "o", "_", "b", "a", "r">>
sFooBar1 == <<"f", "o", "o", "_", "b", "a", "r", "_", "1">>
sFoo7 == <<"f", "o", "o", "_", "7">>
\* "a_4294967296": one more than u32::MAX
sOverflow == <<"a", "_", "4", "2", "9", "4", "9", "6", "7", "2", "9", "6">>
\* "a_0000000000012": more than ten digits, value 12
sLongZeros == <<"a", "_", "0", "0", "0", "0", "0", "0", "0", "0", "0", "0", "0", "1", "2">>
sMinus1 == <<"a", "_", "-", "1">>

HandlerIdSamples == {0, 1, 7, 10, 4096}
ExtraIds == {sFoo, sFooBar, sFooBar1, sFoo7, sOverflow, sLongZeros, sMinus1}
SampleIds == StringsUpTo(MaxLen) \cup ExtraIds

NoCodecInput == [kind |-> "none"]

AggregateUnused ==
    /\ registered = <<>>
    /\ handlers = <<>>
    /\ iterOrder = <<>>
    /\ pc = "idle"
    /\ request = [variant |-> "None"]
    /\ handlerIt = 0
    /\ all_items = <<>>
    /\ routeId = None
    /\ calls = <<>>
    /\ replies = <<>>
    /\ outcomes = <<>>
    /\ notified = <<>>
    /\ response = None
    /\ info = None
    /\ LifeInit("none")
    /\ HyperUnused
    /\ ToolsUnused

InitCodec ==
    /\ codecIn \in [kind : {"pair"}, handler : HandlerIdSamples, item : SampleIds]
                    \cup [kind : {"id"}, id : SampleIds]
    /\ composed = None
    /\ decoded = None
    /\ AggregateUnused

\* CompositeId::compose(&handler, item)
Compose ==
    /\ codecIn.kind = "pair"
    /\ composed = None
    /\ composed' = Some(CompositeId_compose(codecIn.handler, codecIn.item))
    /\ UNCHANGED <<codecIn, decoded>>
    /\ UNCHANGED <<aggVars, lifeVars, hyperVars, toolVars, buildVars>>

\* CompositeId::split(&composite_id) on the string compose returned
SplitComposed ==
    /\ composed # None
    /\ decoded = None
    /\ decoded' = Some(CompositeId_split(composed[1]))
    /\ UNCHANGED <<codecIn, composed>>
    /\ UNCHANGED <<aggVars, lifeVars, hyperVars, toolVars, buildVars>>

\* CompositeId::split(id) on an arbitrary string
SplitId ==
    /\ codecIn.kind = "id"
    /\ decoded = None
    /\ decoded' = Some(CompositeId_split(codecIn.id))
    /\ UNCHANGED <<codecIn, composed>>
    /\ UNCHANGED <<aggVars, lifeVars, hyperVars, toolVars, buildVars>>

NextCodec == Compose \/ SplitComposed \/ SplitId

SpecCodec == InitCodec /\ [][NextCodec]_vars

(***************************************************************************)
(* The aggregate: handlers, requests and upstream replies.                 *)
(***************************************************************************)
\* ServerCapabilities of a handler: each entry an Option
DefaultCapability == [list_changed |-> None]
ChangedCapability == [list_changed |-> Some(TRUE)]
NoCapabilities == [tools |-> None, prompts |-> None, resources |-> None]

\* what Service::get_info(handler) may report for an upstream handler
CoreCapabilities ==
    [tools : {None, Some(DefaultCapability), Some(ChangedCapability)},
     prompts : {None, Some(ChangedCapability)},
     resources : {None, Some(DefaultCapability)}]

\* the capabilities get_info never reads: all absent, or all advertised
OtherCapabilities ==
    {[completions |-> None, logging |-> None, experimental |-> None],
     [completions |-> Some("completions"), logging |-> Some("logging"),
      experimental |-> Some("experimental")]}

UpstreamCapabilities ==
    {core @@ other : core \in CoreCapabilities, other \in OtherCapabilities}

\* AggregateServer::new: the i-th handler of the Vec gets HandlerId(i)
AggregateServer_new_reversed(vec) == [i \in 0..(Len(vec) - 1) |-> vec[Len(vec) - i]]

AggregateServer_new(vec) == [i \in 0..(Len(vec) - 1) |-> vec[i + 1]]

\* AggregateServerBuilder::build on a builder that was pushed the handlers of vec
build(vec) ==
    /\ registered = vec
    /\ handlers = AggregateServer_new(vec)

\* the orders in which a HashMap with these keys may enumerate them
IterOrders(map) ==
    {o \in [1..Cardinality(DOMAIN map) -> DOMAIN map] :
        \A i, j \in DOMAIN o : i # j => o[i] # o[j]}

ListRequests == {"ListToolsRequest", "ListResourcesRequest",
                 "ListResourceTemplatesRequest", "ListPromptsRequest"}
RoutedRequests == {"CallToolRequest", "ReadResourceRequest", "GetPromptRequest"}
UnsupportedRequests == {"SubscribeRequest", "UnsubscribeRequest",
                        "SetLevelRequest", "CompleteRequest"}

\* the ServerResult variant each closure passed to list_all accepts
ListResultOf(variant) ==
    CASE variant = "ListToolsRequest" -> "ListToolsResult"
      [] variant = "ListResourcesRequest" -> "ListResourcesResult"
      [] variant = "ListResourceTemplatesRequest" -> "ListResourceTemplatesResult"
      [] variant = "ListPromptsRequest" -> "ListPromptsResult"

\* PaginatedRequest::set_page_param: self.params = params
set_page_param_keep(req, params) ==
    IF params = None THEN req ELSE [req EXCEPT !.params = params]

set_page_param(req, params) == [req EXCEPT !.params = params]

\* PaginatedResult::new: the items and no next_cursor
PaginatedResult_new(variant, items) ==
    [variant |-> ListResultOf(variant), items |-> items, next_cursor |-> None]

(***************************************************************************)
(* Upstream catalog entries.  A tool and a prompt are identified by their  *)
(* name; a resource by its uri and a resource template by its              *)
(* uri_template, both of which also carry a name.                          *)
(***************************************************************************)
sA == <<"a">>
sB == <<"b">>
sC == <<"c">>
sT == <<"T">>

UpstreamItem(variant, x) ==
    CASE variant = "ListToolsRequest" ->
            [name |-> x, description |-> "tool"]
      [] variant = "ListResourcesRequest" ->
            [uri |-> <<"u", ":">> \o x, name |-> x, description |-> "resource"]
      [] variant = "ListResourceTemplatesRequest" ->
            [uri_template |-> <<"u", ":">> \o x \o <<"{", "}">>, name |-> x,
             description |-> "template"]
      [] variant = "ListPromptsRequest" ->
            [name |-> x, description |-> "prompt"]

\* the local identifiers an upstream may put on one page
LocalPages == {<<>>, <<sA>>, <<sB, sC>>}

UpstreamPages(variant) ==
    {[i \in 1..Len(p) |-> UpstreamItem(variant, p[i])] : p \in LocalPages}

\* the update_item closures of the four list arms
update_item_name_only(variant, id, item) ==
    [item EXCEPT !.name = CompositeId_compose(id, @)]

update_item(variant, id, item) ==
    CASE variant = "ListToolsRequest" ->
            [item EXCEPT !.name = CompositeId_compose(id, @)]
      [] variant = "ListResourcesRequest" ->
            [item EXCEPT !.uri = CompositeId_compose(id, @),
                         !.name = CompositeId_compose(id, @)]
      [] variant = "ListResourceTemplatesRequest" ->
            [item EXCEPT !.uri_template = CompositeId_compose(id, @),
                         !.name = CompositeId_compose(id, @)]
      [] variant = "ListPromptsRequest" ->
            [item EXCEPT !.name = CompositeId_compose(id, @)]

UpstreamError == [code |-> "upstream_error", message |-> <<"b", "o", "o", "m">>]
EmptyResult == [variant |-> "EmptyResult"]

\* the cursor an upstream hands out with its next page; the text differs
\* from page to page
NextCursor == <<"c">> \o FormatU32(Len(replies) + 1)
CursorsHandedOut ==
    Cardinality({i \in 1..Len(replies) :
        replies[i].ok /\ replies[i].value.variant # "EmptyResult"
            /\ replies[i].value.next_cursor # None})

\* what an upstream handler may answer to a list request
UpstreamListReplies(variant) ==
    {Err(UpstreamError), Ok(EmptyResult)}
    \cup {Ok([variant |-> ListResultOf(variant), items |-> p, next_cursor |-> None]) :
            p \in UpstreamPages(variant)}
    \cup {Ok([variant |-> ListResultOf(variant), items |-> p,
              next_cursor |-> Some(NextCursor)]) :
            p \in IF CursorsHandedOut < MaxCursors THEN UpstreamPages(variant) ELSE {}}

(***************************************************************************)
(* Tool-call contents, resource contents and prompt messages.              *)
(***************************************************************************)
uriA == <<"u", ":", "a">>
uriB1 == <<"u", ":", "b", "_", "1">>

TextContent == [type |-> "text", text |-> <<"u", ":", "a">>]
ImageContent == [type |-> "image", data |-> "png"]
TextResource(uri) == [kind |-> "TextResourceContents", uri |-> uri, text |-> "body"]
BlobResource(uri) == [kind |-> "BlobResourceContents", uri |-> uri, blob |-> "AAAA"]
EmbeddedResource(r) == [type |-> "resource", resource |-> r]

\* what an upstream may put in the content of a CallToolResult
UpstreamContents ==
    {<<>>,
     <<TextContent>>,
     <<EmbeddedResource(BlobResource(uriA))>>,
     <<TextContent, EmbeddedResource(TextResource(uriA)), ImageContent,
       EmbeddedResource(BlobResource(uriB1))>>}

\* what an upstream may put in the contents of a ReadResourceResult
UpstreamResourceContents ==
    {<<>>,
     <<BlobResource(uriA)>>,
     <<TextResource(uriA), BlobResource(uriB1), TextResource(uriA)>>}

\* what an upstream may put in the messages of a GetPromptResult
UpstreamPromptMessages ==
    {<<>>,
     <<[role |-> "user", content |-> TextContent],
       [role |-> "assistant", content |-> EmbeddedResource(TextResource(uriA))]>>}

UpstreamCallToolReplies ==
    {Err(UpstreamError), Ok(EmptyResult)}
    \cup {Ok([variant |-> "CallToolResult", content |-> c, is_error |-> e]) :
            c \in UpstreamContents, e \in {None, Some(TRUE)}}

UpstreamReadResourceReplies ==
    {Err(UpstreamError), Ok(EmptyResult)}
    \cup {Ok([variant |-> "ReadResourceResult", contents |-> c]) :
            c \in UpstreamResourceContents}

UpstreamGetPromptReplies ==
    {Err(UpstreamError), Ok(EmptyResult)}
    \cup {Ok([variant |-> "GetPromptResult", description |-> Some("d"),
              messages |-> m]) : m \in UpstreamPromptMessages}

\* AggregateServer::rename_resource
rename_resource_text_only(resource, id) ==
    CASE resource.kind = "TextResourceContents" ->
            [resource EXCEPT !.uri = CompositeId_compose(id, @)]
      [] resource.kind = "BlobResourceContents" -> resource

rename_resource(resource, id) ==
    CASE resource.kind = "TextResourceContents" ->
            [resource EXCEPT !.uri = CompositeId_compose(id, @)]
      [] resource.kind = "BlobResourceContents" ->
            [resource EXCEPT !.uri = CompositeId_compose(id, @)]

\* AggregateServer::split_id: decode, then look the handler up
split_id_stripped(id) ==
    LET r == CompositeId_split(id)
    IN  IF ~r.ok THEN r
        ELSE IF r.value.handler \notin DOMAIN handlers
             THEN Err(resource_not_found(r.value.item))
             ELSE Ok([handler_id |-> r.value.handler, name |-> r.value.item])

split_id(id) ==
    LET r == CompositeId_split(id)
    IN  IF ~r.ok THEN r
        ELSE IF r.value.handler \notin DOMAIN handlers
             THEN Err(resource_not_found(id))
             ELSE Ok([handler_id |-> r.value.handler, name |-> r.value.item])

\* the `for c in &mut r.content` loop of the CallToolRequest arm
rewrite_content(content, id) ==
    [i \in 1..Len(content) |->
        IF content[i].type = "resource"
        THEN [content[i] EXCEPT !.resource = rename_resource(@, id)]
        ELSE content[i]]

\* the `for resource in &mut resp.contents` loop of the ReadResourceRequest arm
rewrite_contents_first(contents, id) ==
    [i \in 1..Len(contents) |->
        IF i = 1 THEN rename_resource(contents[i], id) ELSE contents[i]]

rewrite_contents(contents, id) ==
    [i \in 1..Len(contents) |-> rename_resource(contents[i], id)]

\* the method name carried by Error::method_not_found::<M>()
UnsupportedMethodSame(variant) == "SubscribeRequestMethod"

UnsupportedMethod(variant) ==
    CASE variant = "SubscribeRequest" -> "SubscribeRequestMethod"
      [] variant = "UnsubscribeRequest" -> "UnsubscribeRequestMethod"
      [] variant = "SetLevelRequest" -> "SetLevelRequestMethod"
      [] variant = "CompleteRequest" -> "CompleteRequestMethod"

(***************************************************************************)
(* AggregateServer::get_info                                               *)
(***************************************************************************)
\* the `for handler in self.shared.handlers.values()` loop of get_info
RECURSIVE merge_capabilities_last(_, _)
merge_capabilities_last(order, acc) ==
    IF order = <<>> THEN acc
    ELSE LET caps == handlers[Head(order)].capabilities
         IN  merge_capabilities_last(Tail(order),
                [tools |-> IF caps.tools # None THEN Some(DefaultCapability) ELSE None,
                 prompts |-> IF caps.prompts # None THEN Some(DefaultCapability) ELSE None,
                 resources |-> IF caps.resources # None THEN Some(DefaultCapability)
                               ELSE None])

RECURSIVE merge_capabilities(_, _)
merge_capabilities(order, acc) ==
    IF order = <<>> THEN acc
    ELSE LET caps == handlers[Head(order)].capabilities
         IN  merge_capabilities(Tail(order),
                [tools |-> IF caps.tools # None THEN Some(DefaultCapability)
                           ELSE acc.tools,
                 prompts |-> IF caps.prompts # None THEN Some(DefaultCapability)
                             ELSE acc.prompts,
                 resources |-> IF caps.resources # None THEN Some(DefaultCapability)
                               ELSE acc.resources])

get_info_forwarding ==
    LET merged == merge_capabilities(iterOrder, NoCapabilities)
        last == handlers[iterOrder[Len(iterOrder)]].capabilities
    IN  [protocol_version |-> "2025-03-26",
         capabilities |-> [tools |-> merged.tools,
                           prompts |-> merged.prompts,
                           resources |-> merged.resources,
                           completions |-> None,
                           logging |-> IF iterOrder = <<>> THEN None ELSE last.logging,
                           experimental |-> None],
         server_info |-> [name |-> "Elastic-MCP", version |-> "0.0.1"],
         instructions |-> None]

get_info ==
    LET merged == merge_capabilities(iterOrder, NoCapabilities)
    IN  [protocol_version |-> "2025-03-26",
         capabilities |-> [tools |-> merged.tools,
                           prompts |-> merged.prompts,
                           resources |-> merged.resources,
                           completions |-> None,
                           logging |-> None,
                           experimental |-> None],
         server_info |-> [name |-> "Elastic-MCP", version |-> "0.0.1"],
         instructions |-> None]

(***************************************************************************)
(* ProxyServer: the request goes to the wrapped session, whose failure is  *)
(* a ServiceError.                                                         *)
(***************************************************************************)
\* ServiceError::McpError(re): the remote server answered with an error
ServiceError_McpError(re) == [kind |-> "McpError", error |-> re]

\* the other ServiceError variants, each with the text `{e}` formats it to
TransportClosed == [kind |-> "TransportClosed", display |-> <<"c", "l", "o", "s", "e", "d">>]
Timeout == [kind |-> "Timeout", display |-> <<"t", "i", "m", "e", "o", "u", "t">>]
TransportFailures == {TransportClosed, Timeout}

\* fn map_err(e: ServiceError) -> rmcp::Error
map_err_wrap_all(e) ==
    IF e.kind = "McpError" THEN internal_error(e.error.message)
    ELSE internal_error(e.display)

map_err(e) ==
    IF e.kind = "McpError" THEN e.error
    ELSE internal_error(e.display)

\* ProxyServer::handle_request: self.remote.send_request(request).await.map_err(map_err)
ProxyServer_handle_request(sent) ==
    IF sent.ok THEN sent ELSE Err(map_err(sent.error))

\* what send_request may return on a live session whose server may answer
\* with any of `answers`
RemoteOutcomes(answers) ==
    {IF a.ok THEN a ELSE Err(ServiceError_McpError(a.error)) : a \in answers}
    \cup {Err(t) : t \in TransportFailures}

\* what the call to handler h produces inside the handler: an in-process
\* handler computes its answer; a proxy gets the outcome of send_request,
\* which fails once the session's token is cancelled
HandlerOutcomes(h, answers) ==
    IF h \in ProxyIds
    THEN IF remote_ct[h] THEN {Err(TransportClosed)} ELSE RemoteOutcomes(answers)
    ELSE answers

\* Service::handle_request(handler, request, context).await
HandlerReply(h, outcome) ==
    IF h \in ProxyIds THEN ProxyServer_handle_request(outcome) ELSE outcome

(***************************************************************************)
(* Downstream requests.                                                    *)
(***************************************************************************)
\* the transport delivers requests from the moment serve() returned; when
\* the select! of run_stdio ended on the interrupt it goes on delivering
\* until the process is gone
Delivering ==
    \/ main.pc = "serving"
    \/ main.pc \in {"selected", "returned"} /\ main.ended = Some("ctrl_c")

NoRequest == [variant |-> "None"]

\* the pagination parameter the downstream caller may send with a list request
CallerPageParams == {None, Some([cursor |-> Some(<<"k">>)])}

\* the composite identifiers the downstream caller may send
RequestIds ==
    {CompositeId_compose(h, x) : h \in 0..MaxHandlers, x \in {sT, <<"a", "_", "b">>}}
    \cup {CompositeId_compose(1, <<"T", "_", "1">>)}
    \cup {sFoo7, sFoo, sFooBar, <<"T", "_", "+", "1">>, <<"T", "_", "0", "0">>}

PageParam_first(page) == None

\* the pagination parameter list_all builds from `page`
PageParam(page) ==
    IF page = None THEN None ELSE Some([cursor |-> Some(page[1])])

UpstreamCall(h, req) == [handler |-> h, request |-> req]

\* the handler returns `result`; its locals are dropped
Finish(result) ==
    /\ response' = Some(result)
    /\ pc' = "done"
    /\ handlerIt' = 0
    /\ all_items' = <<>>
    /\ routeId' = None

(***************************************************************************)
(* AggregateServer::handle_request.  Every upstream call is an await: the  *)
(* handler runs up to the call, and resumes when the upstream answers.     *)
(***************************************************************************)
\* the closure passed to list_all: the upstream's answer, or an internal
\* error when it is not the expected variant
list_items_any_variant(variant, reply) ==
    IF reply.ok /\ reply.value.variant # ListResultOf(variant)
    THEN Ok([variant |-> ListResultOf(variant), items |-> <<>>, next_cursor |-> None])
    ELSE reply

list_items_lenient(variant, reply) ==
    IF ~reply.ok
    THEN Ok([variant |-> ListResultOf(variant), items |-> <<>>, next_cursor |-> None])
    ELSE reply

list_items(variant, reply) ==
    IF ~reply.ok THEN reply
    ELSE IF reply.value.variant = ListResultOf(variant) THEN reply
    ELSE Err(internal_error(<<"Expecting " \o ListResultOf(variant)>>))

\* all_items.append(response.values())
append_items_replace(acc, items) == items

append_items_front(acc, items) == items \o acc

append_items(acc, items) == acc \o items

\* request.params.name = name / request.params.uri = uri
forward_local_keep(req, local) == req

forward_local(req, local) ==
    IF req.variant = "ReadResourceRequest"
    THEN [req EXCEPT !.uri = local]
    ELSE [req EXCEPT !.name = local]

\* list_all, up to the first upstream call
ListRequest ==
    /\ pc = "idle"
    /\ Delivering
    /\ \E variant \in ListRequests, params \in CallerPageParams :
        LET req == [variant |-> variant, params |-> params]
        IN  /\ request' = req
            /\ IF iterOrder = <<>>
               THEN /\ Finish(Ok(PaginatedResult_new(variant, <<>>)))
                    /\ calls' = <<>>
               ELSE /\ pc' = "list_all"
                    /\ handlerIt' = 1
                    /\ all_items' = <<>>
                    /\ calls' = <<UpstreamCall(iterOrder[1],
                                     set_page_param(req, PageParam(None)))>>
                    /\ UNCHANGED <<routeId, response>>
    /\ UNCHANGED <<handlers, iterOrder, replies, outcomes, notified, info>>
    /\ UNCHANGED <<codecVars, lifeVars, hyperVars, toolVars, buildVars>>

\* list_all, from one upstream answer to the next upstream call or the return
ListResumeWith(answers) ==
    /\ pc = "list_all"
    /\ \E outcome \in HandlerOutcomes(iterOrder[handlerIt], answers) :
        LET id == iterOrder[handlerIt]
            reply == HandlerReply(id, outcome)
            r == list_items(request.variant, reply)
        IN  /\ outcomes' = Append(outcomes, outcome)
            /\ replies' = Append(replies, reply)
            /\ IF ~r.ok
               THEN Finish(r) /\ UNCHANGED calls
               ELSE LET renamed == [i \in 1..Len(r.value.items) |->
                                      update_item(request.variant, id, r.value.items[i])]
                        acc == append_items(all_items, renamed)
                        page == r.value.next_cursor
                    IN  IF page # None
                        THEN /\ all_items' = acc
                             /\ calls' = Append(calls, UpstreamCall(id,
                                            set_page_param(request, PageParam(page))))
                             /\ UNCHANGED <<pc, handlerIt, routeId, response>>
                        ELSE IF handlerIt < Len(iterOrder)
                        THEN /\ all_items' = acc
                             /\ handlerIt' = handlerIt + 1
                             /\ calls' = Append(calls, UpstreamCall(iterOrder[handlerIt + 1],
                                            set_page_param(request, PageParam(None))))
                             /\ UNCHANGED <<pc, routeId, response>>
                        ELSE /\ Finish(Ok(PaginatedResult_new(request.variant, acc)))
                             /\ UNCHANGED calls
    /\ UNCHANGED <<handlers, iterOrder, request, notified, info>>
    /\ UNCHANGED <<codecVars, lifeVars, hyperVars, toolVars, buildVars>>

ListResume == ListResumeWith(UpstreamListReplies(request.variant))

\* the CallToolRequest arm after the upstream answered
call_tool_result(reply, id) ==
    IF ~reply.ok THEN reply
    ELSE IF reply.value.variant = "CallToolResult"
    THEN Ok([reply.value EXCEPT !.content = rewrite_content(@, id)])
    ELSE Err(internal_error(<<"Expecting CallToolResult">>))

\* the ReadResourceRequest arm after the upstream answered
read_resource_result(reply, id) ==
    IF ~reply.ok THEN reply
    ELSE IF reply.value.variant = "ReadResourceResult"
    THEN Ok([reply.value EXCEPT !.contents = rewrite_contents(@, id)])
    ELSE Err(internal_error(<<"Expecting ListResourceTemplatesResult">>))

\* the GetPromptRequest arm returns the upstream answer as it is
get_prompt_result_renamed(reply, id) ==
    IF reply.ok /\ reply.value.variant = "GetPromptResult"
    THEN LET ms == reply.value.messages
         IN  Ok([reply.value EXCEPT !.messages =
                    [i \in 1..Len(ms) |->
                        IF ms[i].content.type = "resource"
                        THEN [role |-> ms[i].role,
                              content |-> EmbeddedResource(
                                  rename_resource(ms[i].content.resource, id))]
                        ELSE ms[i]]])
    ELSE reply

get_prompt_result(reply, id) == reply

\* the CallToolRequest arm: split_id, rewrite the name, call the upstream
CallToolRequest ==
    /\ pc = "idle"
    /\ Delivering
    /\ \E name \in RequestIds :
        LET req == [variant |-> "CallToolRequest", name |-> name, arguments |-> "args"]
            r == split_id(name)
        IN  /\ request' = req
            /\ IF ~r.ok
               THEN Finish(r) /\ calls' = <<>>
               ELSE /\ pc' = "call_tool"
                    /\ routeId' = Some(r.value.handler_id)
                    /\ calls' = <<UpstreamCall(r.value.handler_id,
                                               forward_local(req, r.value.name))>>
                    /\ UNCHANGED <<handlerIt, all_items, response>>
    /\ UNCHANGED <<handlers, iterOrder, replies, outcomes, notified, info>>
    /\ UNCHANGED <<codecVars, lifeVars, hyperVars, toolVars, buildVars>>

\* the CallToolRequest arm: the upstream answered
CallToolResume ==
    /\ pc = "call_tool"
    /\ \E outcome \in HandlerOutcomes(routeId[1], UpstreamCallToolReplies) :
        LET reply == HandlerReply(routeId[1], outcome)
        IN  /\ outcomes' = Append(outcomes, outcome)
            /\ replies' = Append(replies, reply)
            /\ Finish(call_tool_result(reply, routeId[1]))
    /\ UNCHANGED <<handlers, iterOrder, request, calls, notified, info>>
    /\ UNCHANGED <<codecVars, lifeVars, hyperVars, toolVars, buildVars>>

\* the ReadResourceRequest arm: split_id, rewrite the uri, call the upstream
ReadResourceRequest ==
    /\ pc = "idle"
    /\ Delivering
    /\ \E uri \in RequestIds :
        LET req == [variant |-> "ReadResourceRequest", uri |-> uri]
            r == split_id(uri)
        IN  /\ request' = req
            /\ IF ~r.ok
               THEN Finish(r) /\ calls' = <<>>
               ELSE /\ pc' = "read_resource"
                    /\ routeId' = Some(r.value.handler_id)
                    /\ calls' = <<UpstreamCall(r.value.handler_id,
                                               forward_local(req, r.value.name))>>
                    /\ UNCHANGED <<handlerIt, all_items, response>>
    /\ UNCHANGED <<handlers, iterOrder, replies, outcomes, notified, info>>
    /\ UNCHANGED <<codecVars, lifeVars, hyperVars, toolVars, buildVars>>

\* the ReadResourceRequest arm: the upstream answered
ReadResourceResume ==
    /\ pc = "read_resource"
    /\ \E outcome \in HandlerOutcomes(routeId[1], UpstreamReadResourceReplies) :
        LET reply == HandlerReply(routeId[1], outcome)
        IN  /\ outcomes' = Append(outcomes, outcome)
            /\ replies' = Append(replies, reply)
            /\ Finish(read_resource_result(reply, routeId[1]))
    /\ UNCHANGED <<handlers, iterOrder, request, calls, notified, info>>
    /\ UNCHANGED <<codecVars, lifeVars, hyperVars, toolVars, buildVars>>

\* the GetPromptRequest arm: split_id, rewrite the name, call the upstream
GetPromptRequest ==
    /\ pc = "idle"
    /\ Delivering
    /\ \E name \in RequestIds :
        LET req == [variant |-> "GetPromptRequest", name |-> name, arguments |-> "args"]
            r == split_id(name)
        IN  /\ request' = req
            /\ IF ~r.ok
               THEN Finish(r) /\ calls' = <<>>
               ELSE /\ pc' = "get_prompt"
                    /\ routeId' = Some(r.value.handler_id)
                    /\ calls' = <<UpstreamCall(r.value.handler_id,
                                               forward_local(req, r.value.name))>>
                    /\ UNCHANGED <<handlerIt, all_items, response>>
    /\ UNCHANGED <<handlers, iterOrder, replies, outcomes, notified, info>>
    /\ UNCHANGED <<codecVars, lifeVars, hyperVars, toolVars, buildVars>>

\* the GetPromptRequest arm: the upstream answered
GetPromptResume ==
    /\ pc = "get_prompt"
    /\ \E outcome \in HandlerOutcomes(routeId[1], UpstreamGetPromptReplies) :
        LET reply == HandlerReply(routeId[1], outcome)
        IN  /\ outcomes' = Append(outcomes, outcome)
            /\ replies' = Append(replies, reply)
            /\ Finish(get_prompt_result(reply, routeId[1]))
    /\ UNCHANGED <<handlers, iterOrder, request, calls, notified, info>>
    /\ UNCHANGED <<codecVars, lifeVars, hyperVars, toolVars, buildVars>>

\* what an upstream handler may answer to a ping
UpstreamPingReplies == {Err(UpstreamError), Ok(EmptyResult)}

\* the ServerInfo an upstream answers an initialize request with
UpstreamInfo ==
    [protocol_version |-> "2024-11-05",
     capabilities |-> [tools |-> None, prompts |-> Some(ChangedCapability),
                       resources |-> None, completions |-> None,
                       logging |-> None, experimental |-> None],
     server_info |-> [name |-> "upstream", version |-> "1.0"],
     instructions |-> Some("hello")]

\* what an upstream handler may answer to an initialize request
UpstreamInitializeReplies ==
    {Err(UpstreamError), Ok(EmptyResult),
     Ok([variant |-> "InitializeResult", info |-> UpstreamInfo])}

\* the `?` after `.await` in the loops of the PingRequest and
\* InitializeRequest arms: an Err leaves the loop and is returned
propagates_never(reply) == FALSE

propagates(reply) == ~reply.ok

\* Ok(ServerResult::empty(())) after the PingRequest loop
ping_result == EmptyResult

\* Ok(ServerResult::InitializeResult(Service::get_info(self))) after the
\* InitializeRequest loop; `last` is the value of the last upstream answer,
\* which the loop dropped
initialize_result_upstream(last) == last

initialize_result(last) == [variant |-> "InitializeResult", info |-> get_info]

\* the PingRequest arm, up to the first upstream call
PingRequest ==
    /\ pc = "idle"
    /\ Delivering
    /\ request' = [variant |-> "PingRequest"]
    /\ IF iterOrder = <<>>
       THEN /\ Finish(Ok(ping_result))
            /\ calls' = <<>>
       ELSE /\ pc' = "ping"
            /\ handlerIt' = 1
            /\ calls' = <<UpstreamCall(iterOrder[1], request')>>
            /\ UNCHANGED <<all_items, routeId, response>>
    /\ UNCHANGED <<handlers, iterOrder, replies, outcomes, notified, info>>
    /\ UNCHANGED <<codecVars, lifeVars, hyperVars, toolVars, buildVars>>

\* the PingRequest arm, from one upstream answer to the next call or the return
PingResume ==
    /\ pc = "ping"
    /\ \E outcome \in HandlerOutcomes(iterOrder[handlerIt], UpstreamPingReplies) :
        LET reply == HandlerReply(iterOrder[handlerIt], outcome)
        IN  /\ outcomes' = Append(outcomes, outcome)
            /\ replies' = Append(replies, reply)
            /\ IF propagates(reply)
               THEN Finish(reply) /\ UNCHANGED calls
               ELSE IF handlerIt < Len(iterOrder)
               THEN /\ handlerIt' = handlerIt + 1
                    /\ calls' = Append(calls,
                                    UpstreamCall(iterOrder[handlerIt + 1], request))
                    /\ UNCHANGED <<pc, all_items, routeId, response>>
               ELSE /\ Finish(Ok(ping_result))
                    /\ UNCHANGED calls
    /\ UNCHANGED <<handlers, iterOrder, request, notified, info>>
    /\ UNCHANGED <<codecVars, lifeVars, hyperVars, toolVars, buildVars>>

\* the InitializeRequest arm, up to the first upstream call
InitializeRequest ==
    /\ pc = "idle"
    /\ Delivering
    /\ request' = [variant |-> "InitializeRequest", client_info |-> "client"]
    /\ IF iterOrder = <<>>
       THEN /\ Finish(Ok(initialize_result(EmptyResult)))
            /\ calls' = <<>>
       ELSE /\ pc' = "initialize"
            /\ handlerIt' = 1
            /\ calls' = <<UpstreamCall(iterOrder[1], request')>>
            /\ UNCHANGED <<all_items, routeId, response>>
    /\ UNCHANGED <<handlers, iterOrder, replies, outcomes, notified, info>>
    /\ UNCHANGED <<codecVars, lifeVars, hyperVars, toolVars, buildVars>>

\* the InitializeRequest arm, from one upstream answer to the next call or
\* the return
InitializeResume ==
    /\ pc = "initialize"
    /\ \E outcome \in HandlerOutcomes(iterOrder[handlerIt],
                                       UpstreamInitializeReplies) :
        LET reply == HandlerReply(iterOrder[handlerIt], outcome)
        IN  /\ outcomes' = Append(outcomes, outcome)
            /\ replies' = Append(replies, reply)
            /\ IF propagates(reply)
               THEN Finish(reply) /\ UNCHANGED calls
               ELSE IF handlerIt < Len(iterOrder)
               THEN /\ handlerIt' = handlerIt + 1
                    /\ calls' = Append(calls,
                                    UpstreamCall(iterOrder[handlerIt + 1], request))
                    /\ UNCHANGED <<pc, all_items, routeId, response>>
               ELSE /\ Finish(Ok(initialize_result(reply.value)))
                    /\ UNCHANGED calls
    /\ UNCHANGED <<handlers, iterOrder, request, notified, info>>
    /\ UNCHANGED <<codecVars, lifeVars, hyperVars, toolVars, buildVars>>

\* the SubscribeRequest, UnsubscribeRequest, SetLevelRequest and
\* CompleteRequest arms
UnsupportedRequest ==
    /\ pc = "idle"
    /\ Delivering
    /\ \E variant \in UnsupportedRequests :
        /\ request' = [variant |-> variant]
        /\ Finish(Err(method_not_found(UnsupportedMethod(variant))))
    /\ UNCHANGED <<handlers, iterOrder, calls, replies, outcomes, notified, info>>
    /\ UNCHANGED <<codecVars, lifeVars, hyperVars, toolVars, buildVars>>

(***************************************************************************)
(* AggregateServer::handle_notification                                    *)
(***************************************************************************)
ClientNotifications == {"CancelledNotification", "ProgressNotification",
                        "InitializedNotification", "RootsListChangedNotification"}

\* Ok(())
Unit == [variant |-> "Unit"]

\* what handle_notification sends to the upstream handlers: its body is Ok(())
upstream_notifications_all(notification) ==
    [i \in 1..Len(iterOrder) |-> [handler |-> iterOrder[i], notification |-> notification]]

upstream_notifications(notification) == <<>>

HandleNotification ==
    /\ pc = "idle"
    /\ Delivering
    /\ \E notification \in ClientNotifications :
        /\ request' = [variant |-> notification]
        /\ notified' = notified \o upstream_notifications(notification)
        /\ Finish(Ok(Unit))
    /\ UNCHANGED <<handlers, iterOrder, calls, replies, outcomes, info>>
    /\ UNCHANGED <<codecVars, lifeVars, hyperVars, toolVars, buildVars>>

\* the response is delivered to the downstream caller
Return ==
    /\ pc = "done"
    /\ pc' = "idle"
    /\ request' = NoRequest
    /\ calls' = <<>>
    /\ replies' = <<>>
    /\ outcomes' = <<>>
    /\ response' = None
    /\ UNCHANGED <<handlers, iterOrder, handlerIt, all_items, routeId, notified, info>>
    /\ UNCHANGED <<codecVars, lifeVars, hyperVars, toolVars, buildVars>>

(***************************************************************************)
(* The handlers registered at bootstrap (setup_services): the              *)
(* Elasticsearch tools first, proxies after it.                            *)
(***************************************************************************)
EsBaseTools ==
    [kind |-> "EsBaseTools",
     capabilities |-> [NoCapabilities EXCEPT !.tools = Some(DefaultCapability)]]
ProxyServer == [kind |-> "ProxyServer", capabilities |-> NoCapabilities]

BootstrapHandlers(n) == [i \in 1..n |-> IF i = 1 THEN EsBaseTools ELSE ProxyServer]

CodecUnused ==
    /\ codecIn = NoCodecInput
    /\ composed = None
    /\ decoded = None

Init ==
    /\ CodecUnused
    /\ \E n \in 0..MaxHandlers : build(BootstrapHandlers(n))
    /\ iterOrder \in IterOrders(handlers)
    /\ pc = "idle"
    /\ request = NoRequest
    /\ handlerIt = 0
    /\ all_items = <<>>
    /\ routeId = None
    /\ calls = <<>>
    /\ replies = <<>>
    /\ outcomes = <<>>
    /\ notified = <<>>
    /\ response = None
    /\ info = None
    /\ LifeInit("serving")
    /\ HyperUnused
    /\ ToolsUnused

Next ==
    \/ PingRequest
    \/ PingResume
    \/ InitializeRequest
    \/ InitializeResume
    \/ ListRequest
    \/ ListResume
    \/ CallToolRequest
    \/ CallToolResume
    \/ ReadResourceRequest
    \/ ReadResourceResume
    \/ GetPromptRequest
    \/ GetPromptResume
    \/ UnsupportedRequest
    \/ HandleNotification
    \/ Return

Spec == Init /\ [][Next]_vars

(***************************************************************************)
(* The same request under two enumeration orders of the handler map: the   *)
(* aggregate answers a ping, an initialize or a list request, is built     *)
(* again from the same handlers with a map that enumerates them in another *)
(* order, and answers the same request; an upstream that gets a call it    *)
(* got before answers it as before.                                        *)
(***************************************************************************)
AnswersAsBefore ==
    earlier # None =>
        /\ request # NoRequest => request = earlier[1].request
        /\ \A i \in 1..Len(outcomes) : \A j \in 1..Len(earlier[1].outcomes) :
                calls[i] = earlier[1].calls[j] => outcomes[i] = earlier[1].outcomes[j]

\* AggregateServer::new collects the handlers into a HashMap, whose
\* enumeration order changes from one build to the next
Rebuild ==
    /\ pc = "done"
    /\ earlier = None
    /\ earlier' = Some([order |-> iterOrder, request |-> request, calls |-> calls,
                        outcomes |-> outcomes, response |-> response[1]])
    /\ \E order \in IterOrders(handlers) \ {iterOrder} : iterOrder' = order
    /\ pc' = "idle"
    /\ request' = NoRequest
    /\ calls' = <<>>
    /\ replies' = <<>>
    /\ outcomes' = <<>>
    /\ response' = None
    /\ UNCHANGED <<handlers, handlerIt, all_items, routeId, notified, info, parked>>
    /\ UNCHANGED <<codecVars, lifeVars, toolVars, buildVars>>

NextOrder ==
    \/ PingRequest /\ AnswersAsBefore'
    \/ PingResume /\ AnswersAsBefore'
    \/ InitializeRequest /\ AnswersAsBefore'
    \/ InitializeResume /\ AnswersAsBefore'
    \/ ListRequest /\ AnswersAsBefore'
    \/ ListResume /\ AnswersAsBefore'
    \/ Rebuild

SpecOrder == Init /\ [][NextOrder]_vars

(***************************************************************************)
(* Two requests in flight: run_http hands every session a clone of the     *)
(* aggregate, and the runtime polls the handle_request futures in any      *)
(* order.  The variables pc .. response are the locals of the future being  *)
(* polled, `parked` holds the locals of the suspended one.                  *)
(***************************************************************************)
\* what a handle_request future owns
Locals ==
    [pc |-> pc, request |-> request, handlerIt |-> handlerIt, all_items |-> all_items,
     routeId |-> routeId, calls |-> calls, replies |-> replies, outcomes |-> outcomes,
     response |-> response]

IdleLocals ==
    [pc |-> "idle", request |-> NoRequest, handlerIt |-> 0, all_items |-> <<>>,
     routeId |-> None, calls |-> <<>>, replies |-> <<>>, outcomes |-> <<>>,
     response |-> None]

\* the runtime suspends the future it was polling and polls the other one
Switch_shared_items ==
    /\ parked # None
    /\ parked' = Some(Locals)
    /\ pc' = parked[1].pc
    /\ request' = parked[1].request
    /\ handlerIt' = parked[1].handlerIt
    /\ all_items' = all_items
    /\ routeId' = parked[1].routeId
    /\ calls' = parked[1].calls
    /\ replies' = parked[1].replies
    /\ outcomes' = parked[1].outcomes
    /\ response' = parked[1].response
    /\ UNCHANGED <<handlers, iterOrder, notified, info, earlier>>
    /\ UNCHANGED <<codecVars, lifeVars, toolVars, buildVars>>

Switch ==
    /\ parked # None
    /\ parked' = Some(Locals)
    /\ pc' = parked[1].pc
    /\ request' = parked[1].request
    /\ handlerIt' = parked[1].handlerIt
    /\ all_items' = parked[1].all_items
    /\ routeId' = parked[1].routeId
    /\ calls' = parked[1].calls
    /\ replies' = parked[1].replies
    /\ outcomes' = parked[1].outcomes
    /\ response' = parked[1].response
    /\ UNCHANGED <<handlers, iterOrder, notified, info, earlier>>
    /\ UNCHANGED <<codecVars, lifeVars, toolVars, buildVars>>

\* the requests the two sessions send
ConcurrentRequests ==
    {[variant |-> "ListToolsRequest", params |-> None]}
    \cup {[variant |-> "CallToolRequest", name |-> name, arguments |-> "args"] :
            name \in {CompositeId_compose(0, sT), CompositeId_compose(1, sT)}}

InitConcurrent ==
    /\ CodecUnused
    /\ build(<<EsBaseTools, ProxyServer>>)
    /\ iterOrder \in IterOrders(handlers)
    /\ pc = "idle"
    /\ request = NoRequest
    /\ handlerIt = 0
    /\ all_items = <<>>
    /\ routeId = None
    /\ calls = <<>>
    /\ replies = <<>>
    /\ outcomes = <<>>
    /\ notified = <<>>
    /\ response = None
    /\ info = None
    /\ LifeInit("serving")
    /\ earlier = None
    /\ parked = Some(IdleLocals)
    /\ ToolsUnused

\* the answers the upstreams give to the concurrent list requests: an error
\* or a page that carries items
ConcurrentAnswer(reply) ==
    ~reply.ok \/ (reply.value.variant # "EmptyResult" /\ reply.value.items # <<>>)

NextConcurrent ==
    \/ ListRequest /\ request' \in ConcurrentRequests
    \/ ListResume /\ ConcurrentAnswer(replies'[Len(replies')])
    \/ CallToolRequest /\ request' \in ConcurrentRequests
    \/ CallToolResume
    \/ Switch

SpecConcurrent == InitConcurrent /\ [][NextConcurrent]_vars

(***************************************************************************)
(* run_stdio and the shutdown token: setup_services has built the          *)
(* aggregate from any mix of in-process handlers and proxies, each proxy   *)
(* with its waiter task; run_stdio is about to serve.                      *)
(***************************************************************************)
\* handler.serve(stdio()).await?: an Err leaves run_stdio at once
StdioServe ==
    /\ main.pc = "serve"
    /\ \E served \in BOOLEAN :
        main' = [main EXCEPT !.pc = IF served THEN "serving" ELSE "failed"]
    /\ UNCHANGED <<ct, remote_ct, waiter>>
    /\ UNCHANGED <<codecVars, aggVars, hyperVars, toolVars, buildVars>>

\* select! { service.waiting(), ctrl_c() }: one of the two completes
StdioSelect ==
    /\ main.pc = "serving"
    /\ \E branch \in {"waiting", "ctrl_c"} :
        main' = [pc |-> "selected", ended |-> Some(branch)]
    /\ UNCHANGED <<ct, remote_ct, waiter>>
    /\ UNCHANGED <<codecVars, aggVars, hyperVars, toolVars, buildVars>>

\* whether run_stdio cancels the token after the select! ended on `branch`
cancels_on_interrupt_only(branch) == branch = "ctrl_c"

cancels(branch) == TRUE

\* ct.cancel(); Ok(())
StdioCancel ==
    /\ main.pc = "selected"
    /\ ct' = (ct \/ cancels(main.ended[1]))
    /\ main' = [main EXCEPT !.pc = "returned"]
    /\ UNCHANGED <<remote_ct, waiter>>
    /\ UNCHANGED <<codecVars, aggVars, hyperVars, toolVars, buildVars>>

\* the task ProxyServer::new spawned for proxy h: ct.cancelled().await;
\* remote_ct.cancel();
Waiter_forgets(h) ==
    /\ h \in ProxyIds
    /\ waiter[h] = "waiting"
    /\ ct
    /\ waiter' = [waiter EXCEPT ![h] = "finished"]
    /\ UNCHANGED <<ct, remote_ct, main>>
    /\ UNCHANGED <<codecVars, aggVars, hyperVars, toolVars, buildVars>>

Waiter(h) ==
    /\ h \in ProxyIds
    /\ waiter[h] = "waiting"
    /\ ct
    /\ remote_ct' = [remote_ct EXCEPT ![h] = TRUE]
    /\ waiter' = [waiter EXCEPT ![h] = "finished"]
    /\ UNCHANGED <<ct, main>>
    /\ UNCHANGED <<codecVars, aggVars, hyperVars, toolVars, buildVars>>

\* the servers of the configuration file, in its order
ConfiguredHandlers(n) == [1..n -> {EsBaseTools, ProxyServer}]

InitLife ==
    /\ CodecUnused
    /\ \E n \in 0..MaxHandlers : \E vec \in ConfiguredHandlers(n) :
            build(vec)
    /\ iterOrder \in IterOrders(handlers)
    /\ pc = "idle"
    /\ request = NoRequest
    /\ handlerIt = 0
    /\ all_items = <<>>
    /\ routeId = None
    /\ calls = <<>>
    /\ replies = <<>>
    /\ outcomes = <<>>
    /\ notified = <<>>
    /\ response = None
    /\ info = None
    /\ LifeInit("serve")
    /\ HyperUnused
    /\ ToolsUnused

NextLife ==
    \/ StdioServe
    \/ StdioSelect
    \/ StdioCancel
    \/ \E h \in DOMAIN handlers : Waiter(h)
    \/ PingRequest
    \/ PingResume
    \/ CallToolRequest
    \/ CallToolResume
    \/ HandleNotification
    \/ Return

SpecLife == InitLife /\ [][NextLife]_vars

\* the runtime polls a woken task: each waiter runs once the token is cancelled
SpecLifeFair == SpecLife /\ \A h \in 0..MaxHandlers : WF_vars(Waiter(h))

(***************************************************************************)
(* get_info on aggregates whose handlers advertise any combination of      *)
(* capabilities.                                                           *)
(***************************************************************************)
InitInfo ==
    /\ CodecUnused
    /\ \E n \in 0..MaxHandlers :
        \E vec \in [1..n -> [kind : {"Service"}, capabilities : UpstreamCapabilities]] :
            build(vec)
    /\ iterOrder \in IterOrders(handlers)
    /\ pc = "idle"
    /\ request = NoRequest
    /\ handlerIt = 0
    /\ all_items = <<>>
    /\ routeId = None
    /\ calls = <<>>
    /\ replies = <<>>
    /\ outcomes = <<>>
    /\ notified = <<>>
    /\ response = None
    /\ info = None
    /\ LifeInit("none")
    /\ HyperUnused
    /\ ToolsUnused

\* Service::get_info(&aggregate)
GetInfo ==
    /\ pc = "idle"
    /\ info = None
    /\ info' = Some(get_info)
    /\ UNCHANGED <<handlers, iterOrder, pc, request, handlerIt, all_items, routeId,
                   calls, replies, outcomes, notified, response>>
    /\ UNCHANGED <<codecVars, lifeVars, hyperVars, toolVars, buildVars>>

NextInfo == GetInfo

SpecInfo == InitInfo /\ [][NextInfo]_vars

(***************************************************************************)
(* Vocabulary of the claims about the codec.                               *)
(***************************************************************************)
\* x ends in '_' followed by one or more digits
EndsInUnderscoreDigits(x) ==
    \E i \in 1..Len(x) :
        /\ x[i] = "_"
        /\ i < Len(x)
        /\ \A j \in (i + 1)..Len(x) : x[j] \in Digits

\* t is the text of an unsigned 32-bit integer as str::parse reads it
IsUnsignedText(t) ==
    \E sign \in {<<>>, <<"+">>} :
        \E k \in 1..Len(t) :
            /\ Len(t) = Len(sign) + k
            /\ SubSeq(t, 1, Len(sign)) = sign
            /\ \A j \in (Len(sign) + 1)..Len(t) : t[j] \in Digits
            /\ LET ds == StripZeros(SubSeq(t, Len(sign) + 1, Len(t)))
               IN  ~ExceedsU32(ds)

HasUnderscore(x) == \E i \in 1..Len(x) : x[i] = "_"
AfterLastUnderscore(x) ==
    LET i == CHOOSE j \in 1..Len(x) :
                 x[j] = "_" /\ \A k \in (j + 1)..Len(x) : x[k] # "_"
    IN  SubSeq(x, i + 1, Len(x))

\* C1: for every handler id h and every local identifier x that does not end
\* in '_<digits>', split(compose(h, x)) succeeds with exactly (h, x); and
\* compose(1, "foo_bar") is "foo_bar_1", which splits into (1, "foo_bar").
C1_RoundTrip ==
    /\ (codecIn.kind = "pair" /\ decoded # None
            /\ ~EndsInUnderscoreDigits(codecIn.item))
        => decoded[1] = Ok([handler |-> codecIn.handler, item |-> codecIn.item])
    /\ (codecIn.kind = "pair" /\ composed # None
            /\ codecIn.handler = 1 /\ codecIn.item = sFooBar)
        => composed[1] = sFooBar1
    /\ (codecIn.kind = "id" /\ decoded # None /\ codecIn.id = sFooBar1)
        => decoded[1] = Ok([handler |-> 1, item |-> sFooBar])

C1_Witness ==
    /\ codecIn.kind = "pair"
    /\ codecIn.item = sFooBar
    /\ codecIn.handler = 1
    /\ decoded = Some(Ok([handler |-> 1, item |-> sFooBar]))

\* C2: split(s) fails with 'resource not found' carrying s itself whenever s
\* has no '_' or the text after its last '_' is not an unsigned integer; the
\* inputs "foo", "foo_bar", "" and "_" are all rejected.
C2_SplitRejects ==
    (codecIn.kind = "id" /\ decoded # None) =>
        /\ (~HasUnderscore(codecIn.id)
                \/ ~IsUnsignedText(AfterLastUnderscore(codecIn.id)))
            => decoded[1] = Err(resource_not_found(codecIn.id))
        /\ codecIn.id \in {sFoo, sFooBar, <<>>, <<"_">>}
            => decoded[1] = Err(resource_not_found(codecIn.id))

C2_Witness ==
    /\ codecIn.kind = "id"
    /\ codecIn.id = <<"_">>
    /\ decoded = Some(Err(resource_not_found(<<"_">>)))

(***************************************************************************)
(* Vocabulary of the claims about routing and listing.                     *)
(***************************************************************************)
\* the composite identifier a routed request carries
RequestIdOf(req) == IF req.variant = "ReadResourceRequest" THEN req.uri ELSE req.name

\* the request decodes to a handler id that is registered / not registered
DecodesToRegistered(req) ==
    /\ CompositeId_split(RequestIdOf(req)).ok
    /\ CompositeId_split(RequestIdOf(req)).value.handler \in DOMAIN handlers
DecodesToUnregistered(req) ==
    /\ CompositeId_split(RequestIdOf(req)).ok
    /\ CompositeId_split(RequestIdOf(req)).value.handler \notin DOMAIN handlers

sT1 == <<"T", "_", "1">>
sAB1 == <<"a", "_", "b", "_", "1">>
sAB == <<"a", "_", "b">>

\* C3: a call-tool whose name decodes to (h, T), h registered, makes exactly
\* one upstream request: to handler h, with tool name T; no other upstream
\* receives a request for that call.
C3_ToolRouting ==
    (request.variant = "CallToolRequest" /\ DecodesToRegistered(request)) =>
        LET d == CompositeId_split(request.name).value
        IN  /\ calls = <<[handler |-> d.handler,
                          request |-> [variant |-> "CallToolRequest", name |-> d.item,
                                       arguments |-> request.arguments]]>>
            /\ request.name = sAB1 => (calls[1].handler = 1 /\ calls[1].request.name = sAB)

C3_Witness ==
    /\ pc = "done"
    /\ request.variant = "CallToolRequest"
    /\ request.name = sAB1
    /\ Len(calls) = 1
    /\ calls[1].handler = 1
    /\ response # None /\ response[1].ok

\* C4: call-tool, read-resource and get-prompt with an identifier that decodes
\* to an unregistered handler fail with 'resource not found' carrying the
\* whole original identifier, and no upstream receives a request.
C4_UnknownHandler ==
    (request.variant \in RoutedRequests /\ DecodesToUnregistered(request)) =>
        /\ pc = "done"
        /\ response = Some(Err(resource_not_found(RequestIdOf(request))))
        /\ calls = <<>>
        /\ replies = <<>>

C4_Witness ==
    /\ DOMAIN handlers = {0}
    /\ request.variant = "CallToolRequest"
    /\ request.name = sFoo7
    /\ response = Some(Err([code |-> "resource_not_found", message |-> sFoo7]))

\* C5: in a call-tool result from handler h, every embedded resource (text or
\* blob) with upstream URI u comes back with URI compose(h, u), and every other
\* content entry comes back unchanged, in the same position.
C5_EmbeddedRewrite ==
    (request.variant = "CallToolRequest" /\ pc = "done" /\ replies # <<>>
        /\ replies[1].ok /\ replies[1].value.variant = "CallToolResult") =>
        LET up == replies[1].value
            h == calls[1].handler
            out == response[1]
        IN  /\ out.ok
            /\ out.value.variant = "CallToolResult"
            /\ out.value.is_error = up.is_error
            /\ Len(out.value.content) = Len(up.content)
            /\ \A i \in 1..Len(up.content) :
                IF up.content[i].type = "resource"
                THEN /\ out.value.content[i].type = "resource"
                     /\ out.value.content[i].resource =
                            [up.content[i].resource EXCEPT
                                !.uri = up.content[i].resource.uri \o <<"_">> \o FormatU32(h)]
                ELSE out.value.content[i] = up.content[i]

C5_Witness ==
    /\ request.variant = "CallToolRequest"
    /\ pc = "done"
    /\ calls # <<>> /\ calls[1].handler = 1
    /\ response # None /\ response[1].ok
    /\ Len(response[1].value.content) = 4
    /\ response[1].value.content[1] = TextContent
    /\ response[1].value.content[4].resource.kind = "BlobResourceContents"
    /\ response[1].value.content[4].resource.uri = uriB1 \o <<"_", "1">>

\* C6: a read-resource whose URI decodes to (h, u) goes only to handler h with
\* URI u, and every resource content of the result (text or blob) comes back
\* with its URI replaced by compose(h, upstream uri).
C6_ReadResource ==
    (request.variant = "ReadResourceRequest" /\ DecodesToRegistered(request)) =>
        LET d == CompositeId_split(request.uri).value
        IN  /\ calls = <<[handler |-> d.handler,
                          request |-> [variant |-> "ReadResourceRequest", uri |-> d.item]]>>
            /\ (pc = "done" /\ replies[1].ok
                    /\ replies[1].value.variant = "ReadResourceResult") =>
                LET up == replies[1].value.contents
                    out == response[1]
                IN  /\ out.ok
                    /\ out.value.variant = "ReadResourceResult"
                    /\ Len(out.value.contents) = Len(up)
                    /\ \A i \in 1..Len(up) :
                        out.value.contents[i] =
                            [up[i] EXCEPT !.uri = CompositeId_compose(d.handler, up[i].uri)]

C6_Witness ==
    /\ request.variant = "ReadResourceRequest"
    /\ request.uri = sAB1
    /\ pc = "done"
    /\ calls = <<[handler |-> 1,
                  request |-> [variant |-> "ReadResourceRequest", uri |-> sAB]]>>
    /\ response # None /\ response[1].ok
    /\ Len(response[1].value.contents) = 3
    /\ response[1].value.contents[2] = BlobResource(uriB1 \o <<"_", "1">>)
    /\ response[1].value.contents[3] = TextResource(uriA \o <<"_", "1">>)

\* the reply is a successful page of the kind the list request expects
IsPage(reply, variant) == reply.ok /\ reply.value.variant = ListResultOf(variant)

\* the items the upstreams returned so far, renamed, in the order returned
RECURSIVE RenamedUpstreamItems(_)
RenamedUpstreamItems(n) ==
    IF n = 0 THEN <<>>
    ELSE RenamedUpstreamItems(n - 1)
         \o [j \in 1..Len(replies[n].value.items) |->
                update_item(request.variant, calls[n].handler, replies[n].value.items[j])]

Occurrences(seq, x) == Cardinality({i \in 1..Len(seq) : seq[i] = x})
SameMultiset(s1, s2) ==
    /\ Len(s1) = Len(s2)
    /\ \A i \in 1..Len(s1) : Occurrences(s1, s1[i]) = Occurrences(s2, s1[i])

\* handler h answered its last page: a page without next_cursor
Drained(h) ==
    \E i \in 1..Len(replies) :
        /\ calls[i].handler = h
        /\ replies[i].value.next_cursor = None

toolA0 == [name |-> <<"a", "_", "0">>, description |-> "tool"]
toolB1 == [name |-> <<"b", "_", "1">>, description |-> "tool"]
toolC1 == [name |-> <<"c", "_", "1">>, description |-> "tool"]

\* C7: when every upstream call of a list request succeeds, the returned items
\* are exactly the multiset union, over all registered upstreams and all of
\* their pages, of the upstream items after renaming, and next_cursor is
\* absent; handler 0 with a and handler 1 with b, c give {a_0, b_1, c_1}.
C7_ListConcatenation ==
    (request.variant \in ListRequests /\ pc = "done"
        /\ \A i \in 1..Len(replies) : IsPage(replies[i], request.variant)) =>
        LET out == response[1]
        IN  /\ out.ok
            /\ out.value.variant = ListResultOf(request.variant)
            /\ out.value.next_cursor = None
            /\ Len(replies) = Len(calls)
            /\ \A h \in DOMAIN handlers : Drained(h)
            /\ SameMultiset(out.value.items, RenamedUpstreamItems(Len(replies)))
            /\ (/\ request.variant = "ListToolsRequest"
                /\ Len(replies) = 2
                /\ \E i, j \in 1..2 :
                    /\ calls[i].handler = 0
                    /\ replies[i].value.items = <<UpstreamItem("ListToolsRequest", sA)>>
                    /\ calls[j].handler = 1
                    /\ replies[j].value.items = <<UpstreamItem("ListToolsRequest", sB),
                                                  UpstreamItem("ListToolsRequest", sC)>>)
               => SameMultiset(out.value.items, <<toolA0, toolB1, toolC1>>)

C7_Witness ==
    /\ request.variant = "ListResourcesRequest"
    /\ pc = "done"
    /\ response # None /\ response[1].ok
    /\ Len(replies) = 3
    /\ Len(response[1].value.items) = 6
    /\ \E i, j \in 1..6 :
        /\ i # j
        /\ response[1].value.items[i] = response[1].value.items[j]
    /\ \E i, j \in 1..3 : calls[i].handler # calls[j].handler

\* the cursor a call carried, and the cursor a reply handed out
CursorSent(call) == call.request.params
CursorReturned(reply) ==
    IF reply.ok /\ reply.value.variant # "EmptyResult"
    THEN reply.value.next_cursor ELSE None

\* C8: during a list operation the first request to each upstream carries no
\* cursor (whatever the caller supplied), each later request to that upstream
\* carries exactly the next_cursor of that upstream's previous page, the next
\* upstream is called only after a page without next_cursor, and no cursor of
\* one upstream is sent to another upstream or returned to the caller.
C8_CursorDiscipline ==
    request.variant \in ListRequests =>
        /\ \A i \in 1..Len(calls) :
            IF i = 1 \/ calls[i - 1].handler # calls[i].handler
            THEN /\ CursorSent(calls[i]) = None
                 /\ i > 1 => (IsPage(replies[i - 1], request.variant)
                                /\ CursorReturned(replies[i - 1]) = None)
            ELSE /\ CursorReturned(replies[i - 1]) # None
                 /\ CursorSent(calls[i]) =
                        Some([cursor |-> CursorReturned(replies[i - 1])])
        /\ \A i, k \in 1..Len(calls) :
            (i < k /\ calls[i].handler = calls[k].handler) =>
                \A j \in i..k : calls[j].handler = calls[i].handler
        /\ \A i \in 1..Len(replies) : \A j \in 1..Len(calls) :
            (/\ CursorReturned(replies[i]) # None
             /\ CursorSent(calls[j]) = Some([cursor |-> CursorReturned(replies[i])]))
                => calls[j].handler = calls[i].handler
        /\ (response # None /\ response[1].ok) => response[1].value.next_cursor = None

C8_Witness ==
    /\ request.variant = "ListPromptsRequest"
    /\ request.params = Some([cursor |-> Some(<<"k">>)])
    /\ pc = "done"
    /\ response # None /\ response[1].ok
    /\ Len(calls) = 3
    /\ calls[1].handler # calls[2].handler
    /\ calls[2].handler = calls[3].handler
    /\ CursorSent(calls[2]) = None
    /\ CursorSent(calls[3]) = Some([cursor |-> Some(<<"c", "2">>)])

\* C10: subscribe, unsubscribe, set-level and complete always fail with
\* 'method not found' of the matching method kind, and no upstream receives a
\* request or a notification.
C10_Unsupported ==
    request.variant \in UnsupportedRequests =>
        /\ pc = "done"
        /\ response # None
        /\ ~response[1].ok
        /\ response[1].error.code = "method_not_found"
        /\ request.variant = "SubscribeRequest"
            => response[1].error.message = "SubscribeRequestMethod"
        /\ request.variant = "UnsubscribeRequest"
            => response[1].error.message = "UnsubscribeRequestMethod"
        /\ request.variant = "SetLevelRequest"
            => response[1].error.message = "SetLevelRequestMethod"
        /\ request.variant = "CompleteRequest"
            => response[1].error.message = "CompleteRequestMethod"
        /\ calls = <<>>
        /\ replies = <<>>
        /\ notified = <<>>

C10_Witness ==
    /\ request.variant = "SetLevelRequest"
    /\ Cardinality(DOMAIN handlers) = 2
    /\ response = Some(Err([code |-> "method_not_found",
                            message |-> "SetLevelRequestMethod"]))

(***************************************************************************)
(* Vocabulary of the claims about get_info.                                *)
(***************************************************************************)
Advertised(capability) ==
    \E h \in DOMAIN handlers : handlers[h].capabilities[capability] # None

\* C9: for each of tools, prompts and resources, get_info advertises the
\* capability, with default flags, iff at least one registered upstream's
\* get_info advertises it; with no upstream none is advertised.
C9_CapabilityUnion ==
    info # None =>
        /\ \A capability \in {"tools", "prompts", "resources"} :
            info[1].capabilities[capability] =
                IF Advertised(capability) THEN Some([list_changed |-> None]) ELSE None
        /\ DOMAIN handlers = {} =>
            /\ info[1].capabilities.tools = None
            /\ info[1].capabilities.prompts = None
            /\ info[1].capabilities.resources = None

C9_Witness ==
    /\ info # None
    /\ Cardinality(DOMAIN handlers) = 2
    /\ handlers[iterOrder[1]].capabilities.tools = Some(ChangedCapability)
    /\ handlers[iterOrder[2]].capabilities.tools = None
    /\ handlers[iterOrder[2]].capabilities.prompts # None
    /\ info[1].capabilities.tools = Some(DefaultCapability)
    /\ info[1].capabilities.prompts = Some(DefaultCapability)
    /\ info[1].capabilities.resources = None

(***************************************************************************)
(* Vocabulary of the claims about ping and initialize.                     *)
(***************************************************************************)
\* the upstream calls so far went to the handlers in enumeration order, one
\* call each, every call carrying the request as it arrived
BroadcastInOrder ==
    /\ Len(calls) <= Len(iterOrder)
    /\ \A i \in 1..Len(calls) : calls[i] = [handler |-> iterOrder[i], request |-> request]

\* every registered upstream was called and answered successfully
AllAnsweredOk ==
    /\ Len(replies) = Cardinality(DOMAIN handlers)
    /\ \A h \in DOMAIN handlers :
        \E i \in 1..Len(replies) : calls[i].handler = h /\ replies[i].ok

\* an upstream that failed is the last one called, and the caller gets the
\* error it answered
FirstFailureReturned ==
    \A i \in 1..Len(replies) :
        ~replies[i].ok =>
            /\ i = Len(replies)
            /\ Len(calls) = i
            /\ pc = "done"
            /\ response = Some(replies[i])

\* C11: ping returns a success only if every registered upstream was pinged
\* and answered successfully, and the success is empty; when an upstream
\* fails its error is returned and no further upstream is pinged.
C11_Ping ==
    request.variant = "PingRequest" =>
        /\ BroadcastInOrder
        /\ FirstFailureReturned
        /\ (response # None /\ response[1].ok) =>
            /\ response[1] = [ok |-> TRUE, value |-> [variant |-> "EmptyResult"]]
            /\ AllAnsweredOk
        /\ (pc = "done" /\ AllAnsweredOk) => response[1].ok

C11_Witness ==
    /\ request.variant = "PingRequest"
    /\ Len(iterOrder) = 2
    /\ pc = "done"
    /\ Len(calls) = 1
    /\ replies = <<[ok |-> FALSE, error |-> UpstreamError]>>
    /\ response = Some([ok |-> FALSE, error |-> UpstreamError])

\* C12: initialize is forwarded to every registered upstream; when all of
\* them succeed the reply is exactly the value get_info returns, whatever the
\* upstreams answered; when one fails, initialize fails with that error.
C12_Initialize ==
    request.variant = "InitializeRequest" =>
        /\ BroadcastInOrder
        /\ FirstFailureReturned
        /\ (response # None /\ response[1].ok) => AllAnsweredOk
        /\ (pc = "done" /\ \A i \in 1..Len(replies) : replies[i].ok) =>
            /\ AllAnsweredOk
            /\ response = Some([ok |-> TRUE,
                                value |-> [variant |-> "InitializeResult",
                                           info |-> get_info]])

C12_Witness ==
    /\ request.variant = "InitializeRequest"
    /\ Len(iterOrder) = 2
    /\ pc = "done"
    /\ replies = <<[ok |-> TRUE, value |-> EmptyResult],
                   [ok |-> TRUE, value |-> [variant |-> "InitializeResult",
                                            info |-> UpstreamInfo]]>>
    /\ response[1].ok
    /\ response[1].value.info.server_info.name = "Elastic-MCP"
    /\ response[1].value.info.capabilities.prompts = None

(***************************************************************************)
(* Vocabulary of the claims about shutdown.                                *)
(***************************************************************************)
\* the session token of every proxy is cancelled
SessionsCancelled == \A h \in ProxyIds : remote_ct[h]

\* the step is the answer to a call that went through a proxy whose session
\* token was already cancelled
AnswersThroughCancelled ==
    /\ Len(replies') = Len(replies) + 1
    /\ calls[Len(replies')].handler \in ProxyIds
    /\ remote_ct[calls[Len(replies')].handler]

MatchingVariant(variant) ==
    CASE variant = "ListToolsRequest" -> "ListToolsResult"
      [] variant = "ListResourcesRequest" -> "ListResourcesResult"
      [] variant = "ListResourceTemplatesRequest" -> "ListResourceTemplatesResult"
      [] variant = "ListPromptsRequest" -> "ListPromptsResult"
      [] variant = "CallToolRequest" -> "CallToolResult"
      [] variant = "ReadResourceRequest" -> "ReadResourceResult"
      [] variant = "GetPromptRequest" -> "GetPromptResult"

\* the last upstream answer is a success of a variant that does not match
AnsweredOtherVariant ==
    /\ request.variant \in ListRequests \cup RoutedRequests
    /\ replies # <<>>
    /\ replies[Len(replies)].ok
    /\ replies[Len(replies)].value.variant # MatchingVariant(request.variant)

\* C14: when an upstream answers a list, call-tool, read-resource or
\* get-prompt request with a successful result of a variant that does not
\* match the request, the caller gets an internal error, not that result.
C14_UnexpectedVariant ==
    (pc = "done" /\ AnsweredOtherVariant) =>
        /\ ~response[1].ok
        /\ response[1].error.code = "internal_error"

\* C15: an error a remote server answered reaches the caller unchanged
\* through the proxy and the aggregate, and so does the error of an
\* in-process handler, for every forwarded request kind; a failure of the
\* proxy's session reaches the caller as an internal error whose message is
\* the failure's text.
C15_ErrorPassThrough ==
    \A i \in 1..Len(outcomes) :
        ~outcomes[i].ok =>
            /\ pc = "done"
            /\ i = Len(outcomes)
            /\ IF calls[i].handler \in ProxyIds
               THEN /\ outcomes[i].error.kind = "McpError" =>
                        response = Some([ok |-> FALSE, error |-> outcomes[i].error.error])
                    /\ outcomes[i].error.kind # "McpError" =>
                        response = Some([ok |-> FALSE,
                                         error |-> [code |-> "internal_error",
                                                    message |-> outcomes[i].error.display]])
               ELSE response = Some([ok |-> FALSE, error |-> outcomes[i].error])

C15_Witness ==
    /\ request.variant = "ReadResourceRequest"
    /\ pc = "done"
    /\ Len(calls) = 1
    /\ calls[1].handler \in ProxyIds
    /\ outcomes = <<[ok |-> FALSE,
                     error |-> [kind |-> "McpError", error |-> UpstreamError]]>>
    /\ response = Some([ok |-> FALSE,
                        error |-> [code |-> "upstream_error",
                                   message |-> <<"b", "o", "o", "m">>]])

\* the list, call-tool and read-resource arms answer an internal error when
\* the upstream's success is of a variant that does not match
VariantChecked ==
    (pc = "done" /\ AnsweredOtherVariant /\ request.variant # "GetPromptRequest") =>
        /\ ~response[1].ok
        /\ response[1].error.code = "internal_error"

(***************************************************************************)
(* Vocabulary of the claims about get-prompt and notifications.            *)
(***************************************************************************)
promptMessages ==
    <<[role |-> "user", content |-> [type |-> "text", text |-> uriA]],
      [role |-> "assistant",
       content |-> [type |-> "resource",
                    resource |-> [kind |-> "TextResourceContents", uri |-> uriA,
                                  text |-> "body"]]]>>

\* C16: a get-prompt whose name decodes to (h, p), h registered, is forwarded
\* only to handler h, with prompt name p, and the caller gets the upstream's
\* answer with no field rewritten.
C16_GetPrompt ==
    (request.variant = "GetPromptRequest" /\ DecodesToRegistered(request)) =>
        LET d == CompositeId_split(request.name).value
        IN  /\ calls = <<[handler |-> d.handler,
                          request |-> [variant |-> "GetPromptRequest", name |-> d.item,
                                       arguments |-> request.arguments]]>>
            /\ Len(replies) <= 1
            /\ pc = "done" =>
                /\ response = Some(replies[1])
                /\ outcomes[1].ok => response = Some(outcomes[1])
            /\ pc # "done" => response = None

C16_Witness ==
    /\ pc = "done"
    /\ request.variant = "GetPromptRequest"
    /\ request.name = sAB1
    /\ calls = <<[handler |-> 1,
                  request |-> [variant |-> "GetPromptRequest", name |-> sAB,
                               arguments |-> "args"]]>>
    /\ response = Some([ok |-> TRUE,
                        value |-> [variant |-> "GetPromptResult",
                                   description |-> Some("d"),
                                   messages |-> promptMessages]])

\* C17: every client notification is accepted and dropped: the aggregate
\* answers success, no upstream receives a notification or a request because
\* of it, and nothing the aggregate holds changes.
C17_Notification ==
    /\ [](request.variant \in ClientNotifications =>
            /\ pc = "done"
            /\ response = Some([ok |-> TRUE, value |-> Unit])
            /\ calls = <<>>
            /\ replies = <<>>
            /\ notified = <<>>)
    /\ [][request'.variant \in ClientNotifications =>
            UNCHANGED <<handlers, iterOrder, notified, info, ct, remote_ct, waiter>>]_vars

C17_Witness ==
    /\ request.variant = "CancelledNotification"
    /\ Cardinality(DOMAIN handlers) = 2
    /\ pc = "done"
    /\ response = Some([ok |-> TRUE, value |-> Unit])
    /\ notified = <<>>

(***************************************************************************)
(* Vocabulary of the claim about the injectivity of the encoding.          *)
(***************************************************************************)
\* the local identifiers a second pair is drawn from
OtherLocals == StringsUpTo(MaxLen - 1) \cup ExtraIds

\* the same locals and the local of the pair being composed
LocalsAtHand ==
    OtherLocals \cup (IF codecIn.kind = "pair" THEN {codecIn.item} ELSE {})

\* two distinct pairs, one of them with a local ending in '_<digits>', have
\* the same composite identifier
Collision(h1, x1, h2, x2) ==
    /\ <<h1, x1>> # <<h2, x2>>
    /\ EndsInUnderscoreDigits(x1) \/ EndsInUnderscoreDigits(x2)
    /\ CompositeId_compose(h1, x1) = CompositeId_compose(h2, x2)

\* C18 as stated: the encoding is not injective: there are two distinct
\* pairs (h1, local1) and (h2, local2), at least one local ending in
\* '_<digits>', that compose to the same public string.
C18_NotInjective ==
    \E h1 \in HandlerIdSamples, h2 \in HandlerIdSamples :
        \E x1 \in LocalsAtHand, x2 \in LocalsAtHand : Collision(h1, x1, h2, x2)

\* C18, amended: the encoding is injective: no pair other than the one that
\* was composed composes to the same public string, also when a local ends
\* in '_<digits>'.
C18_Injective ==
    (codecIn.kind = "pair" /\ composed # None) =>
        \A h2 \in HandlerIdSamples : \A x2 \in OtherLocals :
            CompositeId_compose(h2, x2) = composed[1]
                => (h2 = codecIn.handler /\ x2 = codecIn.item)

C18_Witness ==
    /\ codecIn.kind = "pair"
    /\ codecIn.handler = 10
    /\ codecIn.item = <<"a", "_", "1">>
    /\ composed = Some(<<"a", "_", "1", "_", "1", "0">>)

\* C19: once the shutdown token is triggered the aggregate starts no new
\* upstream work: from a state where the token is cancelled and no request
\* with upstream calls is in progress, no call reaches any upstream handler.
C19_NoWorkAfterShutdown ==
    [][(ct /\ calls = <<>>) => calls' = <<>>]_vars

\* C20: in stdio mode, once serving has started, the shutdown token is
\* cancelled whether the select! ended on the waiting future or on the
\* interrupt, and run_stdio returns only after cancelling it.
C20_StdioCancels ==
    /\ main.pc = "returned" => (ct /\ main.ended \in {Some("waiting"), Some("ctrl_c")})
    /\ ct => main.pc = "returned"
    /\ main.pc \in {"serve", "serving", "selected", "failed"} => ~ct

C20_Witness ==
    /\ main.pc = "returned"
    /\ main.ended = Some("waiting")
    /\ ct

(***************************************************************************)
(* Vocabulary of the claim about the enumeration order.                    *)
(***************************************************************************)
\* two responses to the request `req` are the same: the same error, or the
\* same success value, the items of a list compared as a multiset
SameResponse(req, r1, r2) ==
    /\ r1.ok = r2.ok
    /\ ~r1.ok => r1.error = r2.error
    /\ r1.ok =>
        IF req.variant \in ListRequests
        THEN /\ r1.value.variant = r2.value.variant
             /\ r1.value.next_cursor = r2.value.next_cursor
             /\ SameMultiset(r1.value.items, r2.value.items)
        ELSE r1 = r2

\* C21: the response to ping, initialize and each list operation is the same
\* for every enumeration order of the handler map, whatever the upstreams
\* answer: the same success value, list items compared as a multiset, or
\* the same error.
C21_OrderIndependent ==
    (earlier # None /\ pc = "done") =>
        SameResponse(request, earlier[1].response, response[1])

\* what does hold: both orders succeed or both fail, and two successes are
\* the same
SameUpToError ==
    (earlier # None /\ pc = "done") =>
        /\ earlier[1].response.ok = response[1].ok
        /\ response[1].ok => SameResponse(request, earlier[1].response, response[1])

(***************************************************************************)
(* Vocabulary of the claims about the items of a list response.            *)
(***************************************************************************)
\* the number of items the first n upstream answers carried
RECURSIVE ItemsBefore(_)
ItemsBefore(n) ==
    IF n = 0 THEN 0 ELSE ItemsBefore(n - 1) + Len(replies[n].value.items)

\* the calls to one handler are consecutive
CallsInBlocks ==
    \A i, k \in 1..Len(calls) :
        (i < k /\ calls[i].handler = calls[k].handler) =>
            \A j \in i..k : calls[j].handler = calls[i].handler

ListSucceeded ==
    /\ request.variant \in ListRequests
    /\ pc = "done"
    /\ response[1].ok

\* C22: in a list result the items of one handler appear in the order that
\* handler returned them, page after page in the order the pages were
\* fetched, as one block that no other handler's items interrupt.
C22_HandlerBlocks ==
    ListSucceeded =>
        LET items == response[1].value.items
        IN  /\ Len(items) = ItemsBefore(Len(replies))
            /\ \A n \in 1..Len(replies) : \A j \in 1..Len(replies[n].value.items) :
                items[ItemsBefore(n - 1) + j] =
                    update_item(request.variant, calls[n].handler,
                                replies[n].value.items[j])
            /\ CallsInBlocks

C22_Witness ==
    /\ ListSucceeded
    /\ request.variant = "ListToolsRequest"
    /\ Len(replies) = 3
    /\ calls[1].handler = calls[2].handler
    /\ replies[1].value.items = <<UpstreamItem("ListToolsRequest", sB),
                                  UpstreamItem("ListToolsRequest", sC)>>
    /\ replies[2].value.items = <<UpstreamItem("ListToolsRequest", sA)>>
    /\ replies[3].value.items = <<UpstreamItem("ListToolsRequest", sA)>>
    /\ Len(response[1].value.items) = 4

\* the fields of a list item that carry identifiers
IdentifierFields(variant) ==
    CASE variant = "ListToolsRequest" -> {"name"}
      [] variant = "ListResourcesRequest" -> {"uri", "name"}
      [] variant = "ListResourceTemplatesRequest" -> {"uri_template", "name"}
      [] variant = "ListPromptsRequest" -> {"name"}

\* `out` is the upstream item `item` of handler h with its identifiers
\* composed and nothing else touched
Namespaced(variant, h, item, out) ==
    /\ DOMAIN out = DOMAIN item
    /\ \A f \in DOMAIN item :
        IF f \in IdentifierFields(variant)
        THEN out[f] = CompositeId_compose(h, item[f])
        ELSE out[f] = item[f]

\* C23: every item of a list response carries compose(h, local) where h is
\* the handler that returned it: in the name of a tool, the uri and the name
\* of a resource, the uri_template and the name of a resource template, the
\* name of a prompt; its other fields are unchanged.
C23_ItemsNamespaced ==
    ListSucceeded =>
        /\ Len(response[1].value.items) = ItemsBefore(Len(replies))
        /\ \A n \in 1..Len(replies) : \A j \in 1..Len(replies[n].value.items) :
            Namespaced(request.variant, calls[n].handler, replies[n].value.items[j],
                       response[1].value.items[ItemsBefore(n - 1) + j])

C23_Witness ==
    /\ ListSucceeded
    /\ request.variant = "ListResourceTemplatesRequest"
    /\ Len(calls) = 2
    /\ calls[1].handler = 1
    /\ Len(response[1].value.items) = 3
    /\ response[1].value.items[1] =
        [uri_template |-> <<"u", ":", "a", "{", "}", "_", "1">>,
         name |-> <<"a", "_", "1">>,
         description |-> "template"]

\* C24: whatever the upstreams are, get_info reports the name Elastic-MCP,
\* the version 0.0.1 and the protocol version 2025-03-26, and reports the
\* logging, completions and experimental capabilities as absent, also when
\* an upstream advertises them.
C24_FixedIdentity ==
    info # None =>
        /\ info[1].server_info = [name |-> "Elastic-MCP", version |-> "0.0.1"]
        /\ info[1].protocol_version = "2025-03-26"
        /\ info[1].capabilities.logging = None
        /\ info[1].capabilities.completions = None
        /\ info[1].capabilities.experimental = None

C24_Witness ==
    /\ info # None
    /\ Cardinality(DOMAIN handlers) = 2
    /\ \A h \in DOMAIN handlers :
        /\ handlers[h].capabilities.logging = Some("logging")
        /\ handlers[h].capabilities.completions = Some("completions")
        /\ handlers[h].capabilities.experimental = Some("experimental")
    /\ info[1].capabilities.logging = None
    /\ info[1].server_info.name = "Elastic-MCP"

(***************************************************************************)
(* Vocabulary of the claim about the handler map.                          *)
(***************************************************************************)
\* the i-th handler pushed into the builder has the id i, counting from 0,
\* and there is no other id
DenseInOrder ==
    /\ DOMAIN handlers = 0..(Len(registered) - 1)
    /\ \A i \in 1..Len(registered) : handlers[i - 1] = registered[i]

\* C25: an aggregate built from n registered upstreams gives them the handler
\* ids 0..n-1 in registration order, and no request, notification or
\* cancellation afterwards adds, removes or re-maps an entry of the map.
C25_HandlerMap ==
    /\ []DenseInOrder
    /\ [][handlers' = handlers]_vars

C25_Witness ==
    /\ registered = <<ProxyServer, EsBaseTools>>
    /\ handlers[0].kind = "ProxyServer"
    /\ handlers[1].kind = "EsBaseTools"
    /\ ct
    /\ remote_ct[0]
    /\ request.variant = "CallToolRequest"
    /\ pc = "done"

(***************************************************************************)
(* Vocabulary of the claim about concurrent requests: what a request gets  *)
(* when it runs alone against given upstream answers.                      *)
(***************************************************************************)
\* list_all run alone: `it` is the position in the enumeration order, `page`
\* the cursor to send, `k` the next upstream answer to consume
RECURSIVE ListAlone(_, _, _, _, _, _, _)
ListAlone(req, answers, it, page, acc, sent, k) ==
    IF it > Len(iterOrder)
    THEN [calls |-> sent, response |-> Some(Ok(PaginatedResult_new(req.variant, acc)))]
    ELSE LET id == iterOrder[it]
             sent2 == Append(sent, [handler |-> id,
                                    request |-> [req EXCEPT !.params = PageParam(page)]])
         IN  IF k > Len(answers)
             THEN [calls |-> sent2, response |-> None]
             ELSE LET r == list_items(req.variant, answers[k])
                  IN  IF ~r.ok
                      THEN [calls |-> sent2, response |-> Some(r)]
                      ELSE LET acc2 == acc \o [j \in 1..Len(r.value.items) |->
                                                update_item(req.variant, id,
                                                            r.value.items[j])]
                           IN  IF r.value.next_cursor # None
                               THEN ListAlone(req, answers, it, r.value.next_cursor,
                                              acc2, sent2, k + 1)
                               ELSE ListAlone(req, answers, it + 1, None,
                                              acc2, sent2, k + 1)

\* the CallToolRequest arm run alone
CallToolAlone(req, answers) ==
    LET r == split_id(req.name)
    IN  IF ~r.ok
        THEN [calls |-> <<>>, response |-> Some(r)]
        ELSE LET sent == <<[handler |-> r.value.handler_id,
                            request |-> [req EXCEPT !.name = r.value.name]]>>
             IN  IF answers = <<>>
                 THEN [calls |-> sent, response |-> None]
                 ELSE [calls |-> sent,
                       response |-> Some(call_tool_result(answers[1],
                                                          r.value.handler_id))]

Alone(req, answers) ==
    IF req.variant \in ListRequests
    THEN ListAlone(req, answers, 1, None, <<>>, <<>>, 1)
    ELSE CallToolAlone(req, answers)

\* the future with the locals l sent the calls and has the response it would
\* have, had it run alone against the answers it got
AsAlone(l) ==
    l.request # NoRequest =>
        Alone(l.request, l.replies) = [calls |-> l.calls, response |-> l.response]

\* C26: when two requests are handled concurrently, each one's upstream calls
\* and response are those it would have if it ran alone against the same
\* upstream answers: accumulated items, cursors and decoded handler ids of
\* one request never show up in the other.
C26_Isolation ==
    parked # None => (AsAlone(Locals) /\ AsAlone(parked[1]))

C26_Witness ==
    /\ parked # None
    /\ parked[1].pc = "list_all"
    /\ Len(parked[1].replies) = 1
    /\ Len(parked[1].all_items) = 2
    /\ request.variant = "ListToolsRequest"
    /\ pc = "done"
    /\ Len(replies) = 3
    /\ response[1].ok
    /\ Len(response[1].value.items) = 3

(***************************************************************************)
(* Vocabulary of the claim about retries and fabricated successes.         *)
(***************************************************************************)
\* no upstream is sent the same request (the same page, for a list) twice
NoRepeatedCall ==
    \A i, j \in 1..Len(calls) : i < j => calls[i] # calls[j]

\* a call is issued only when every earlier call was answered
OneCallPerAnswer == Len(calls) <= Len(replies) + 1

\* the call an upstream answered with an error is the last one issued
NoCallAfterError ==
    \A i \in 1..Len(replies) : ~replies[i].ok => Len(calls) = i

\* a success is returned only when every call issued was answered with a
\* success
SuccessAfterSuccesses ==
    (response # None /\ response[1].ok) =>
        /\ Len(replies) = Len(calls)
        /\ \A i \in 1..Len(replies) : replies[i].ok

JString(s) == [type |-> "string", string |-> s]
JNumber(n) == [type |-> "number", number |-> n]
JBool(b) == [type |-> "bool", bool |-> b]
JArray(values) == [type |-> "array", array |-> values]
JObject(map) == [type |-> "object", object |-> map]

Map_new == {}
Map_contains_key(map, key) == \E e \in map : e[1] = key
Map_get(map, key) == (CHOOSE e \in map : e[1] = key)[2]
Map_insert(map, key, value) == {e \in map : e[1] # key} \cup {<<key, value>>}

\* json!(fields) of a Vec<String>
json_strings(fields) == JArray([i \in 1..Len(fields) |-> JString(fields[i])])

Content_text(text) == [type |-> "text", text |-> text]
\* Content::json: a text content holding the serialization of the value
Content_json(value) == [type |-> "text", text |-> [json |-> value]]
CallToolResult_success(content) ==
    [variant |-> "CallToolResult", content |-> content, is_error |-> FALSE]

\* search, lines 135-146: the `fields` parameter augments `_source`
search_body_replacing(fields, query_body) ==
    IF fields = None THEN query_body
    ELSE Map_insert(query_body, "_source", json_strings(fields[1]))

search_body(fields, query_body) ==
    IF fields = None THEN query_body
    ELSE IF /\ Map_contains_key(query_body, "_source")
            /\ Map_get(query_body, "_source").type = "array"
    THEN Map_insert(query_body, "_source",
                    JArray(Map_get(query_body, "_source").array
                           \o json_strings(fields[1]).array))
    ELSE Map_insert(query_body, "_source", json_strings(fields[1]))

\* search, lines 161-171
total_text(total) == IF total = None THEN <<"unknown">> ELSE FormatU32(total[1].value)
stats_text(resp) ==
    <<"Total results: ">> \o total_text(resp.hits.total) \o <<", showing ">>
        \o FormatU32(Len(resp.hits.hits)) \o <<".">>

\* search, lines 157-188: the contents of the result
search_results_always_stats(resp) ==
    <<Content_text(stats_text(resp))>>
    \o (IF resp.hits.hits # <<>>
        THEN <<Content_json(JArray([i \in 1..Len(resp.hits.hits) |->
                                       resp.hits.hits[i].source]))>>
        ELSE <<>>)
    \o (IF resp.aggregations # <<>>
        THEN <<Content_text(<<"Aggregations results:">>),
               Content_json(resp.aggregations)>>
        ELSE <<>>)

search_results(resp) ==
    (IF resp.aggregations = <<>> \/ resp.hits.hits # <<>>
     THEN <<Content_text(stats_text(resp))>>
     ELSE <<>>)
    \o (IF resp.hits.hits # <<>>
        THEN <<Content_json(JArray([i \in 1..Len(resp.hits.hits) |->
                                       resp.hits.hits[i].source]))>>
        ELSE <<>>)
    \o (IF resp.aggregations # <<>>
        THEN <<Content_text(<<"Aggregations results:">>),
               Content_json(resp.aggregations)>>
        ELSE <<>>)

\* esql, lines 213-217: one row turned into an object; response.columns[i]
\* panics when the row has more values than there are columns
Panic == [panic |-> "index out of bounds"]

RECURSIVE row_object(_, _, _, _)
row_object(columns, row, i, obj) ==
    IF i > Len(row) THEN Ok(obj)
    ELSE IF i > Len(columns) THEN Err(Panic)
    ELSE row_object(columns, row, i + 1, Map_insert(obj, columns[i].name, row[i]))

\* esql, lines 211-218
RECURSIVE esql_objects(_, _, _)
esql_objects(resp, j, objects) ==
    IF j > Len(resp.values) THEN Ok(objects)
    ELSE LET obj == row_object(resp.columns, resp.values[j], 1, Map_new)
         IN  IF ~obj.ok THEN obj
             ELSE esql_objects(resp, j + 1, Append(objects, JObject(obj.value)))

\* the arguments of the tools
docA == JObject({<<"title", JString("a")>>})
docB == JObject({<<"title", JString("b")>>})
matchAll == JObject({<<"match_all", JObject({})>>})

SourceValues == {JArray(<<>>), JArray(<<JString("x")>>), JString("x"), JBool(FALSE)}
QueryBodies ==
    {q \cup s : q \in {{}, {<<"query", matchAll>>}},
                s \in {{}} \cup {{<<"_source", v>>} : v \in SourceValues}}
FieldsParams == {None, Some(<<>>), Some(<<"y">>), Some(<<"y", "z">>)}

SearchInputs ==
    {[tool |-> "search", index |-> "idx", fields |-> f, query_body |-> b] :
        f \in FieldsParams, b \in QueryBodies}
EsqlInputs == {[tool |-> "esql", query |-> "FROM idx"]}

\* the answers of Elasticsearch as read_json decoded them
EsError == [code |-> "internal_error", message |-> <<"elasticsearch">>]

HitLists == UNION {[1..n -> {[source |-> docA], [source |-> docB]}] : n \in 0..MaxHits}
Totals == {None} \cup {Some([value |-> n]) : n \in {0, MaxHits + 1}}
Aggregations ==
    {<<>>, <<<<"by_title", JObject({<<"buckets", JArray(<<>>)>>})>>>>}
SearchResults ==
    {[hits |-> [total |-> t, hits |-> h], aggregations |-> a] :
        t \in Totals, h \in HitLists, a \in Aggregations}

ColumnNames == <<"a", "b", "c", "d", "e">>
ColumnLists ==
    {[i \in 1..n |-> [name |-> ColumnNames[i], type |-> "long"]] : n \in 0..MaxColumns}
\* the value ES put in row j at position i
Cell(j, i) == JNumber(10 * j + i)
RowLengths == 0..(MaxColumns + 1)
ValueMatrices ==
    UNION {{[j \in 1..m |-> [i \in 1..lens[j] |-> Cell(j, i)]] :
                lens \in [1..m -> RowLengths]} : m \in 0..MaxRows}
EsqlQueryResponses ==
    {[is_partial |-> None, columns |-> c, values |-> v] :
        c \in ColumnLists, v \in ValueMatrices}

\* search up to the request to Elasticsearch
SearchSend ==
    /\ toolIn.tool = "search"
    /\ toolOut = None
    /\ toolOut' = Some([pc |-> "sent",
                        body |-> search_body(toolIn.fields, toolIn.query_body)])
    /\ UNCHANGED <<toolIn, codecVars, aggVars, lifeVars, hyperVars, buildVars>>

\* search from the answer of Elasticsearch to the return
SearchResume ==
    /\ toolIn.tool = "search"
    /\ toolOut # None
    /\ toolOut[1].pc = "sent"
    /\ \E answer \in {Err(EsError)} \cup {Ok(r) : r \in SearchResults} :
        toolOut' = Some([pc |-> "returned", body |-> toolOut[1].body,
                         answer |-> answer,
                         result |-> IF ~answer.ok THEN answer
                                    ELSE Ok(CallToolResult_success(
                                                search_results(answer.value)))])
    /\ UNCHANGED <<toolIn, codecVars, aggVars, lifeVars, hyperVars, buildVars>>

\* esql up to the request to Elasticsearch
EsqlSend ==
    /\ toolIn.tool = "esql"
    /\ toolOut = None
    /\ toolOut' = Some([pc |-> "sent", body |-> [query |-> toolIn.query]])
    /\ UNCHANGED <<toolIn, codecVars, aggVars, lifeVars, hyperVars, buildVars>>

\* esql from the answer of Elasticsearch to the return, or to the panic
EsqlResume ==
    /\ toolIn.tool = "esql"
    /\ toolOut # None
    /\ toolOut[1].pc = "sent"
    /\ \E answer \in {Err(EsError)} \cup {Ok(r) : r \in EsqlQueryResponses} :
        IF ~answer.ok
        THEN toolOut' = Some([pc |-> "returned", body |-> toolOut[1].body,
                              answer |-> answer, result |-> answer])
        ELSE LET objects == esql_objects(answer.value, 1, <<>>)
             IN  IF ~objects.ok
                 THEN toolOut' = Some([pc |-> "panicked", body |-> toolOut[1].body,
                                       answer |-> answer])
                 ELSE toolOut' = Some([pc |-> "returned", body |-> toolOut[1].body,
                                       answer |-> answer,
                                       result |-> Ok(CallToolResult_success(
                                           <<Content_text(<<"Results">>),
                                             Content_json(JArray(objects.value))>>))])
    /\ UNCHANGED <<toolIn, codecVars, aggVars, lifeVars, hyperVars, buildVars>>

InitTools ==
    /\ CodecUnused
    /\ registered = <<>>
    /\ handlers = <<>>
    /\ iterOrder = <<>>
    /\ pc = "idle"
    /\ request = NoRequest
    /\ handlerIt = 0
    /\ all_items = <<>>
    /\ routeId = None
    /\ calls = <<>>
    /\ replies = <<>>
    /\ outcomes = <<>>
    /\ notified = <<>>
    /\ response = None
    /\ info = None
    /\ LifeInit("none")
    /\ HyperUnused
    /\ toolIn \in SearchInputs \cup EsqlInputs
    /\ toolOut = None

\* the CallToolRequest arm of the aggregate gets the tool's answer from the
\* Elasticsearch handler, registered first
ToolCallReturn ==
    /\ toolOut # None
    /\ toolOut[1].pc = "returned"
    /\ response = None
    /\ response' = Some(call_tool_result(toolOut[1].result, 0))
    /\ UNCHANGED <<handlers, iterOrder, pc, request, handlerIt, all_items, routeId,
                   calls, replies, outcomes, notified, info>>
    /\ UNCHANGED <<codecVars, lifeVars, hyperVars, toolVars, buildVars>>

NextTools ==
    \/ SearchSend
    \/ SearchResume
    \/ EsqlSend
    \/ EsqlResume
    \/ ToolCallReturn

SpecTools == InitTools /\ [][NextTools]_vars

(***************************************************************************)
(* Vocabulary of the claims about the search and esql tools.               *)
(***************************************************************************)
SearchStarted == toolIn.tool = "search" /\ toolOut # None
SearchAnswered ==
    SearchStarted /\ toolOut[1].pc = "returned" /\ toolOut[1].answer.ok

\* the entries of a JSON object other than `_source`
OtherEntries(map) == {e \in map : e[1] # "_source"}
SourceEntries(map) == {e[2] : e \in {x \in map : x[1] = "_source"}}
FieldStrings(fields) == [i \in 1..Len(fields) |-> JString(fields[i])]

\* C28: when `fields` is supplied and the query body has a `_source` array,
\* the body sent to Elasticsearch has `_source` equal to that array followed
\* by the fields in order; when `_source` is absent it is created equal to
\* the fields; when `fields` is not supplied the body is sent unchanged.
C28_SearchFields ==
    SearchStarted =>
        LET fields == toolIn.fields
            query_body == toolIn.query_body
            body == toolOut[1].body
        IN  /\ fields = None => body = query_body
            /\ fields # None =>
                /\ OtherEntries(body) = OtherEntries(query_body)
                /\ \A v \in SourceEntries(query_body) :
                    v.type = "array" =>
                        SourceEntries(body) = {JArray(v.array \o FieldStrings(fields[1]))}
                /\ SourceEntries(query_body) = {} =>
                        SourceEntries(body) = {JArray(FieldStrings(fields[1]))}

C28_Witness ==
    /\ SearchStarted
    /\ toolIn.fields = Some(<<"y">>)
    /\ SourceEntries(toolIn.query_body) = {JArray(<<JString("x")>>)}
    /\ SourceEntries(toolOut[1].body) = {JArray(<<JString("x"), JString("y")>>)}
    /\ Cardinality(toolOut[1].body) = 2

\* the three parts of the search result
StatsPart(answer) ==
    <<Content_text(<<"Total results: ">>
        \o (IF answer.hits.total = None THEN <<"unknown">>
            ELSE FormatU32(answer.hits.total[1].value))
        \o <<", showing ">> \o FormatU32(Len(answer.hits.hits)) \o <<".">>)>>
HitsPart(answer) ==
    <<Content_json(JArray([i \in 1..Len(answer.hits.hits) |->
                              answer.hits.hits[i].source]))>>
AggregationsPart(answer) ==
    <<Content_text(<<"Aggregations results:">>), Content_json(answer.aggregations)>>
When(present, part) == IF present THEN part ELSE <<>>

\* C29: the contents of the search result are, in this order, the "Total
\* results: N, showing M." text unless the answer has aggregations and no
\* hit, one JSON array of the hits' _source values iff there is a hit, and
\* the "Aggregations results:" text followed by the aggregations iff the
\* aggregations are not empty.
C29_SearchOutput ==
    SearchAnswered =>
        LET answer == toolOut[1].answer.value
            hits == Len(answer.hits.hits)
            aggregations == Len(answer.aggregations)
        IN  toolOut[1].result =
                Ok(CallToolResult_success(
                    When(~(aggregations > 0 /\ hits = 0), StatsPart(answer))
                    \o When(hits >= 1, HitsPart(answer))
                    \o When(aggregations > 0, AggregationsPart(answer))))

C29_Witness ==
    /\ SearchAnswered
    /\ toolOut[1].answer.value.hits.hits = <<>>
    /\ toolOut[1].answer.value.aggregations # <<>>
    /\ Len(toolOut[1].result.value.content) = 2
    /\ toolOut[1].result.value.content[1] = Content_text(<<"Aggregations results:">>)

\* esql got an answer from Elasticsearch
EsqlAnswered ==
    /\ toolIn.tool = "esql"
    /\ toolOut # None
    /\ toolOut[1].pc # "sent"
    /\ toolOut[1].answer.ok

\* the object of one row: column name c_i mapped to the i-th value
RowObject(columns, row) ==
    JObject({<<columns[i].name, row[i]>> : i \in 1..Len(row)})

\* no row has more values than there are columns
RowsFit(answer) ==
    \A j \in 1..Len(answer.values) : Len(answer.values[j]) <= Len(answer.columns)

Transposed(answer) ==
    /\ toolOut[1].pc = "returned"
    /\ toolOut[1].result =
        Ok(CallToolResult_success(
            <<Content_text(<<"Results">>),
              Content_json(JArray([j \in 1..Len(answer.values) |->
                                      RowObject(answer.columns, answer.values[j])]))>>))

\* esql transposes every answer whose rows are no longer than the column list
TransposedWhenRowsFit ==
    (EsqlAnswered /\ RowsFit(toolOut[1].answer.value)) =>
        Transposed(toolOut[1].answer.value)

\* C30: the esql tool returns, without failure, one object per row, in row
\* order, that maps each column name to the value at its position in the
\* row, for every answer of Elasticsearch, rows shorter or longer than the
\* column list included.
C30_EsqlTransposes ==
    EsqlAnswered => Transposed(toolOut[1].answer.value)

(***************************************************************************)
(* run_http.  setup_services returned the shutdown token `ct` and the      *)
(* aggregate; serve_with_config is given a new token in its configuration  *)
(* and what it returns is bound to a second `ct` that shadows the first:   *)
(* main.server_ct is that second token.  The waiters of the proxies stay   *)
(* blocked in ct.cancelled().await for as long as `ct` is not cancelled.   *)
(***************************************************************************)
\* HttpProtocol::serve_with_config(..).await?
HttpServe ==
    /\ main.pc = "serve"
    /\ \E served \in BOOLEAN :
        main' = [main EXCEPT !.pc = IF served THEN "serving" ELSE "failed"]
    /\ UNCHANGED <<ct, remote_ct, waiter>>
    /\ UNCHANGED <<codecVars, aggVars, hyperVars, toolVars, buildVars>>

\* tokio::signal::ctrl_c().await?
HttpInterrupt ==
    /\ main.pc = "serving"
    /\ \E listened \in BOOLEAN :
        main' = IF listened
                THEN [main EXCEPT !.pc = "interrupted", !.ended = Some("ctrl_c")]
                ELSE [main EXCEPT !.pc = "failed"]
    /\ UNCHANGED <<ct, remote_ct, waiter>>
    /\ UNCHANGED <<codecVars, aggVars, hyperVars, toolVars, buildVars>>

\* ct.cancel() on the token of the HTTP server; Ok(())
HttpCancel ==
    /\ main.pc = "interrupted"
    /\ main' = [main EXCEPT !.pc = "returned", !.server_ct = TRUE]
    /\ UNCHANGED <<ct, remote_ct, waiter>>
    /\ UNCHANGED <<codecVars, aggVars, hyperVars, toolVars, buildVars>>

InitHttp ==
    /\ CodecUnused
    /\ \E n \in 0..MaxHandlers : \E vec \in ConfiguredHandlers(n) :
            build(vec)
    /\ iterOrder \in IterOrders(handlers)
    /\ pc = "idle"
    /\ request = NoRequest
    /\ handlerIt = 0
    /\ all_items = <<>>
    /\ routeId = None
    /\ calls = <<>>
    /\ replies = <<>>
    /\ outcomes = <<>>
    /\ notified = <<>>
    /\ response = None
    /\ info = None
    /\ ct = FALSE
    /\ remote_ct = [h \in ProxyIds |-> FALSE]
    /\ waiter = [h \in ProxyIds |-> "waiting"]
    /\ main = [pc |-> "serve", ended |-> None, server_ct |-> FALSE]
    /\ HyperUnused
    /\ ToolsUnused

NextHttp ==
    \/ HttpServe
    \/ HttpInterrupt
    \/ HttpCancel
    \/ PingRequest
    \/ PingResume
    \/ CallToolRequest
    \/ CallToolResume
    \/ Return

SpecHttp == InitHttp /\ [][NextHttp]_vars

(***************************************************************************)
(* Vocabulary of the claim about failed Elasticsearch calls.               *)
(***************************************************************************)
\* the call to Elasticsearch failed and the call-tool request was answered
ClusterCallFailed ==
    /\ toolOut # None
    /\ toolOut[1].pc = "returned"
    /\ ~toolOut[1].answer.ok
    /\ response # None

\* a tool result marked as failed that carries the message
FailedToolResult(message) ==
    Ok([variant |-> "CallToolResult", content |-> <<Content_text(message)>>,
        is_error |-> TRUE])

\* C31: when the Elasticsearch call behind a tool fails with an HTTP or
\* cluster error, the call-tool request completes with a tool result marked
\* as failed that carries the cluster's message, and not with a protocol
\* error.
C31_FailedToolResult ==
    ClusterCallFailed =>
        response[1] = FailedToolResult(toolOut[1].answer.error.message)

(***************************************************************************)
(* Vocabulary of the claim about emitted identifiers routing back.         *)
(***************************************************************************)
\* local identifiers an upstream may report: plain, containing '_', ending
\* in '_<digits>'
ReportedLocals == {sT, sAB, sT1, sAB1}

\* the list request whose items a routed request names, and the field of the
\* item that the routed request carries
ListOf(variant) ==
    CASE variant = "CallToolRequest" -> "ListToolsRequest"
      [] variant = "ReadResourceRequest" -> "ListResourcesRequest"
      [] variant = "GetPromptRequest" -> "ListPromptsRequest"

ReportedItem(variant, x) ==
    IF variant = "ReadResourceRequest"
    THEN [uri |-> x, name |-> x, description |-> "resource"]
    ELSE [name |-> x, description |-> "item"]

\* the identifier the list operation emits for the item handler h reported
\* under x
Emitted(variant, h, x) ==
    LET item == update_item(ListOf(variant), h, ReportedItem(variant, x))
    IN  IF variant = "ReadResourceRequest" THEN item.uri ELSE item.name

\* the request went to handler h alone, with the local identifier x
ForwardedTo(h, x) ==
    calls = <<[handler |-> h,
               request |-> IF request.variant = "ReadResourceRequest"
                           THEN [request EXCEPT !.uri = x]
                           ELSE [request EXCEPT !.name = x]]>>

\* C32: a call-tool, read-resource or get-prompt that uses the identifier a
\* list operation emits for the item handler h reported under the local
\* identifier x is forwarded to h, and only h, with the identifier x, also
\* when x contains '_' or ends in '_<digits>'.
C32_RoutesBack ==
    request.variant \in RoutedRequests =>
        \A h \in DOMAIN handlers : \A x \in ReportedLocals :
            RequestIdOf(request) = Emitted(request.variant, h, x) => ForwardedTo(h, x)

C32_Witness ==
    /\ request.variant = "ReadResourceRequest"
    /\ request.uri = Emitted("ReadResourceRequest", 1, sT1)
    /\ 1 \in DOMAIN handlers
    /\ pc = "done"
    /\ response[1].ok
    /\ ForwardedTo(1, sT1)

(***************************************************************************)
(* Vocabulary of the claim about canonical decoding.                       *)
(***************************************************************************)
\* split accepted the string it was given
SplitAccepted ==
    codecIn.kind = "id" /\ decoded # None /\ decoded[1].ok

\* composing the pair split returned gives back the string that was split
ComposesBack ==
    CompositeId_compose(decoded[1].value.handler, decoded[1].value.item) = codecIn.id

\* the text after the last '_' is the decimal form of the handler id, with
\* no sign and no leading zero
PlainSuffix ==
    RSplitOnce(codecIn.id)[1][2] = FormatU32(decoded[1].value.handler)

\* C33 as stated: for every string s that split accepts with result (h, x),
\* compose(h, x) = s.
C33_Canonical ==
    SplitAccepted => ComposesBack

\* C33, amended: for every string s that split accepts with result (h, x),
\* compose(h, x) = s exactly when the text after the last '_' of s is the
\* decimal form of h without sign or leading zero.
C33_CanonicalWhenPlain ==
    SplitAccepted => (ComposesBack <=> PlainSuffix)

C33_Witness ==
    /\ codecIn = [kind |-> "id", id |-> sLongZeros]
    /\ decoded = Some(Ok([handler |-> 12, item |-> <<"a">>]))
    /\ ~PlainSuffix
    /\ ~ComposesBack

(***************************************************************************)
(* Vocabulary of the claim about the interrupt in HTTP mode.               *)
(***************************************************************************)
\* run_http returned after the interrupt
HttpShutDown == main.pc = "returned" /\ main.ended = Some("ctrl_c")

\* C34: in HTTP mode an interrupt cancels the shutdown token that was handed
\* to the proxies at bootstrap: when run_http has returned after the
\* interrupt, that token is cancelled.
C34_HttpInterruptCancels ==
    HttpShutDown => ct

(***************************************************************************)
(* A proxied session that ends on its own, next to run_stdio and the       *)
(* waiters.                                                                *)
(***************************************************************************)
\* as if every proxy wrapped one and the same session token
SessionEnds_shared(h) ==
    /\ h \in ProxyIds
    /\ ~remote_ct[h]
    /\ remote_ct' = [k \in ProxyIds |-> TRUE]
    /\ UNCHANGED <<ct, waiter, main>>
    /\ UNCHANGED <<codecVars, aggVars, hyperVars, toolVars, buildVars>>

\* the session of proxy h cancels its own token, remote.cancellation_token(),
\* for example because the upstream died; the waiter of h keeps waiting for
\* the shutdown token
SessionEnds(h) ==
    /\ h \in ProxyIds
    /\ ~remote_ct[h]
    /\ remote_ct' = [remote_ct EXCEPT ![h] = TRUE]
    /\ UNCHANGED <<ct, waiter, main>>
    /\ UNCHANGED <<codecVars, aggVars, hyperVars, toolVars, buildVars>>

NextSessions ==
    \/ StdioServe
    \/ StdioSelect
    \/ StdioCancel
    \/ \E h \in DOMAIN handlers : Waiter(h)
    \/ \E h \in DOMAIN handlers : SessionEnds(h)
    \/ PingRequest
    \/ PingResume
    \/ Return

SpecSessions == InitLife /\ [][NextSessions]_vars

(***************************************************************************)
(* Vocabulary of the claim about the direction of cancellation.            *)
(***************************************************************************)
\* the step cancels the session token of proxy k
SessionCancelled(k) == remote_ct'[k] /\ ~remote_ct[k]

\* the step is run_stdio's ct.cancel()
ShutdownRequested == main.pc = "selected" /\ main'.pc = "returned"

\* C35: cancellation only flows downward: the shutdown token is cancelled by
\* run_stdio alone, and a step that cancels the session token of one proxy
\* while the shutdown token is not cancelled leaves the shutdown token and
\* the session token of every other proxy as they were.
C35_DownwardOnly ==
    [][/\ (ct' /\ ~ct) => ShutdownRequested
       /\ \A k \in ProxyIds :
            (SessionCancelled(k) /\ ~ct) =>
                /\ ~ct'
                /\ \A j \in ProxyIds \ {k} : remote_ct'[j] = remote_ct[j]]_vars

C35_Witness ==
    /\ Cardinality(ProxyIds) = 2
    /\ \E k \in ProxyIds : remote_ct[k] /\ \A j \in ProxyIds \ {k} : ~remote_ct[j]
    /\ ~ct
    /\ main.pc = "serving"
    /\ request.variant = "PingRequest"
    /\ pc = "done"
    /\ Len(replies) = 2

(***************************************************************************)
(* Vocabulary of the claim about failed list operations.                   *)
(***************************************************************************)
\* the i-th page request failed: the upstream answered with an error or with
\* a result of another variant
PageFailed(i) ==
    \/ ~replies[i].ok
    \/ replies[i].value.variant # ListResultOf(request.variant)

\* the error list_all returns for a failed page
PageError(i) ==
    IF ~replies[i].ok THEN replies[i]
    ELSE Err(internal_error(<<"Expecting " \o ListResultOf(request.variant)>>))

\* C36: when a page request of a list operation fails (an error or an
\* unexpected result variant), the list request returns that error, returns
\* none of the items accumulated so far, and no further page request is sent
\* to any upstream.
C36_AllOrNothing ==
    request.variant \in ListRequests =>
        \A i \in 1..Len(replies) :
            PageFailed(i) =>
                /\ pc = "done"
                /\ response = Some(PageError(i))
                /\ all_items = <<>>
                /\ Len(calls) = i
                /\ Len(replies) = i

C36_Witness ==
    /\ request.variant = "ListPromptsRequest"
    /\ Len(calls) = 2
    /\ calls[1].handler # calls[2].handler
    /\ Len(replies) = 2
    /\ replies[1].ok
    /\ Len(replies[1].value.items) = 2
    /\ replies[2] = Ok(EmptyResult)
    /\ pc = "done"
    /\ ~response[1].ok

(***************************************************************************)
(* Upstreams that page at will: with a page an upstream hands out a new    *)
(* cursor, or once more the cursor it was just sent, or none.              *)
(***************************************************************************)
\* the cursor of the page request that is being answered
SentCursor ==
    LET params == calls[Len(calls)].request.params
    IN  IF params = None THEN {} ELSE {params[1].cursor[1]}

PagingReplies(variant) ==
    {Err(UpstreamError)}
    \cup {Ok([variant |-> ListResultOf(variant),
              items |-> <<UpstreamItem(variant, sA)>>, next_cursor |-> None])}
    \cup {Ok([variant |-> ListResultOf(variant),
              items |-> <<UpstreamItem(variant, sA)>>, next_cursor |-> Some(c)]) :
            c \in IF CursorsHandedOut < MaxPages
                  THEN {NextCursor} \cup SentCursor ELSE {}}

NextList ==
    \/ ListRequest
    \/ ListResumeWith(PagingReplies(request.variant))
    \/ Return

SpecList == Init /\ [][NextList]_vars

\* every upstream answers each page request
SpecListFair == SpecList /\ WF_vars(ListResumeWith(PagingReplies(request.variant)))

(***************************************************************************)
(* Vocabulary of the claim about the termination of list operations.       *)
(***************************************************************************)
\* the i-th answer is a page that carries a next_cursor
HasNextCursor(i) ==
    /\ replies[i].ok
    /\ replies[i].value.variant = ListResultOf(request.variant)
    /\ replies[i].value.next_cursor # None

CallsTo(h) == {i \in 1..Len(calls) : calls[i].handler = h}

\* when the list succeeded, each upstream was sent as many requests as it
\* returned pages: one, and one more for every next_cursor it handed out
PagesCounted ==
    (request.variant \in ListRequests /\ pc = "done" /\ response[1].ok) =>
        /\ Len(calls) = Len(replies)
        /\ \A h \in DOMAIN handlers :
            Cardinality(CallsTo(h)) = 1 + Cardinality({i \in CallsTo(h) : HasNextCursor(i)})

\* every page with a next_cursor is followed by a request to the same
\* upstream with that cursor, however many pages came before
CursorsFollowed ==
    request.variant \in ListRequests =>
        \A i \in 1..Len(replies) :
            HasNextCursor(i) =>
                /\ Len(calls) > i
                /\ calls[i + 1] =
                    [handler |-> calls[i].handler,
                     request |-> [request EXCEPT !.params =
                        Some([cursor |-> Some(replies[i].value.next_cursor[1])])]]

\* C37: a list operation returns when every upstream answers each page
\* request and ends its pages after finitely many; an upstream is sent as many
\* requests as it has pages; and an upstream that hands out a next_cursor,
\* be it the same one again, is queried again each time.
C37_ListTerminates ==
    /\ (pc = "list_all") ~> (pc = "done")
    /\ []PagesCounted
    /\ []CursorsFollowed

C37_Witness ==
    /\ request.variant = "ListToolsRequest"
    /\ Len(iterOrder) = 1
    /\ Len(calls) = 3
    /\ calls[2] = calls[3]
    /\ pc = "done"
    /\ response[1].ok
    /\ Len(response[1].value.items) = 3

(***************************************************************************)
(* Vocabulary of the claim about initialize and proxied sessions.  The     *)
(* session of a proxy completed its handshake in setup_services, before    *)
(* ProxyServer::new was called.                                            *)
(***************************************************************************)
\* the i-th call is an initialize request that the session of a proxy
\* delivered to its upstream, which answered it
InitializeAnsweredByProxied(i) ==
    /\ calls[i].handler \in ProxyIds
    /\ calls[i].request.variant = "InitializeRequest"
    /\ outcomes[i].ok

\* C38: no proxied upstream session is sent an initialize request after its
\* handshake at bootstrap, however many initialize requests the aggregate
\* handles.
C38_NoReinitialize ==
    \A i \in 1..Len(outcomes) : ~InitializeAnsweredByProxied(i)

(***************************************************************************)
(* Vocabulary of the claim about advertised capabilities.                  *)
(***************************************************************************)
\* the capability of get_info, which is also that of the initialize result,
\* for the items of a list request
AdvertisedFor(variant) ==
    CASE variant = "ListToolsRequest" -> get_info.capabilities.tools
      [] variant = "ListPromptsRequest" -> get_info.capabilities.prompts
      [] variant = "ListResourcesRequest" -> get_info.capabilities.resources
      [] variant = "ListResourceTemplatesRequest" -> get_info.capabilities.resources

\* the list request returned an item that a proxied upstream reported
ListedFromProxy ==
    /\ request.variant \in ListRequests
    /\ pc = "done"
    /\ response[1].ok
    /\ \E i \in 1..Len(response[1].value.items) :
        CompositeId_split(response[1].value.items[i].name).value.handler \in ProxyIds

\* C39: whenever a list request on the aggregate returns items, those of
\* proxied upstreams included, get_info and the initialize result advertise
\* the capability for that kind of item.
C39_CapabilitiesAgree ==
    ListedFromProxy => AdvertisedFor(request.variant) # None

====
